---- MODULE Spec2Model ----
(***************************************************************************)
(* State-machine model of the Slack -> Linear triage agent's correlation   *)
(* and dispatch core (index.ts): the three Slack listeners, the sequential *)
(* message queue with its isProcessing latch, the seven queue handlers,    *)
(* the two 24h correlation maps and the processedMessages dedup set.       *)
(*                                                                         *)
(* Node runs the code on one thread: a listener or the code between two    *)
(* awaits runs to completion.  A handler that is waiting on Slack, Linear  *)
(* or the agent is "in flight"; listeners run only while no drain loop is  *)
(* between two awaits (looping = 0).                                       *)
(*                                                                         *)
(* Conventions: a missing / undefined / empty string is "", null is Null,  *)
(* a missing timestamp is NoTs, a text is a sequence of tokens and the     *)
(* missing or empty text is <<>> (the code treats both as falsy).          *)
(***************************************************************************)
EXTENDS Integers, Sequences, FiniteSets, TLC

VARIABLES
  processedMessages,  \* Set<string>, kept as the sequence of its insertion order
  messageQueue,       \* QueuedMessage[]
  isProcessing,       \* the latch of processQueue
  threadTicketMap,    \* Map thread_ts -> ThreadOutcome
  messageTicketMap,   \* Map message_ts -> MessageOutcome
  now,                \* Date.now(), in ms
  looping,            \* number of processQueue activations at the head of their while loop
  inflight,           \* handler invocations suspended at an await: [item, info]
  nextId,             \* history: id given to the next item pushed
  started,            \* history: ids of the items whose handler was started, in order
  finished,           \* history: ids of the items whose handler returned or threw
  threw,              \* history: ids of the items whose handler threw
  nDrains,            \* history: number of processQueue activations that passed the latch
  nTicks,             \* history: number of clock steps taken
  phase,              \* position of main(): "connect", "recover", "drain" (await
                      \* processQueue), "live"; "stopping" and "exited" at shutdown
  lastOutcome,        \* history: what the last listener call did: "pushed", "deduped", "filtered"
  lastCall,           \* history: the call to the agent the last handler made, if any
  scan,               \* recoverMissedMessages: [pages, missedMessages, foundLastProcessed, scanning]
  connect,            \* connectToLinearWithRetry: [attempt, delays]
  reactions           \* Slack: message ts -> state of its robot_face reaction

vars == <<processedMessages, messageQueue, isProcessing, threadTicketMap,
          messageTicketMap, now, looping, inflight, nextId, started, finished,
          threw, nDrains, nTicks, phase, lastOutcome, lastCall, scan, connect,
          reactions>>

----------------------------------------------------------------------------
(* Bounds of the model *)

MaxEvents == 2
MaxQueueEvents == 4
MaxDedupInserts == 1002
MaxTTLEvents == 3
MaxEditEvents == 2
MaxDeleteEvents == 3
MaxDeferredEvents == 3
MaxTicks == 2
MaxPages == 2
MaxRestartEvents == 1
MaxMarkerEvents == 2
MaxShutdownEvents == 3

(* Program constants *)

DedupCap == 1000
DedupTrim == 500
maxAge == 24 * 60 * 60 * 1000
maxRetries == 5
initialDelayMs == 2000
Minute == 60 * 1000

NoTs == 0
Null == "<null>"
BotMention == "<@UBOT>"
MonitoredChannel == "C_TRIAGE"

Timestamps == {1, 2}
Users == {"U1", "U2"}

----------------------------------------------------------------------------
(* Helpers for JS Map / Set / string *)

Range(s) == {s[i] : i \in 1..Len(s)}

EmptyMap == [k \in {} |-> FALSE]

MapHas(m, k) == k \in DOMAIN m

MapSet(m, k, v) == [x \in (DOMAIN m) \cup {k} |-> IF x = k THEN v ELSE m[x]]

MapDelete(m, k) == [x \in (DOMAIN m) \ {k} |-> m[x]]

\* a || b on strings
OrElse(a, b) == IF a # "" THEN a ELSE b

\* text.includes(token)
Includes(text, token) == \E i \in 1..Len(text) : text[i] = token

----------------------------------------------------------------------------
(* Data shapes *)

\* A QueuedMessage: type plus the fields of data the handlers read.  One shape
\* for all seven types; a field a type does not carry keeps its BaseItem value.
\* id is history: the position of the item in the order of pushes.
BaseItem ==
  [id |-> 0, type |-> "", messageTs |-> NoTs, threadTs |-> NoTs, userId |-> "",
   text |-> <<>>, previousText |-> <<>>, ticketId |-> "", ticketIdentifier |-> "",
   isDuplicate |-> FALSE, isSameReporter |-> FALSE, originalContext |-> <<>>,
   ticketContext |-> Null]

\* The value of "no item pushed"
NoItem == BaseItem

\* ticketInfo of a handler that read none
NoInfo == [ticketId |-> "", ticketIdentifier |-> "", createdAt |-> 0,
           wasTriaged |-> FALSE, action |-> ""]

----------------------------------------------------------------------------
(* processQueue: the latch *)

\* Mutant: the latch is not consulted
ProcessQueueIgnoresLatch(processing, queue) == Len(queue) = 0

\* if (isProcessing || messageQueue.length === 0) return;
ProcessQueueReturnsEarly(processing, queue) == processing \/ Len(queue) = 0

\* Mutant: unshift() in place of push(): the item goes to the head of the queue
PushFront(item) ==
  LET queue == <<[item EXCEPT !.id = nextId]>> \o messageQueue IN
  /\ messageQueue' = queue
  /\ nextId' = nextId + 1
  /\ IF ProcessQueueReturnsEarly(isProcessing, queue)
       THEN UNCHANGED <<isProcessing, looping, nDrains>>
       ELSE /\ isProcessing' = TRUE
            /\ looping' = looping + 1
            /\ nDrains' = nDrains + 1

\* Mutant: the listener pushes the item and does not call processQueue
PushOnly(item) ==
  /\ messageQueue' = Append(messageQueue, [item EXCEPT !.id = nextId])
  /\ nextId' = nextId + 1
  /\ UNCHANGED <<isProcessing, looping, nDrains>>

\* messageQueue.push(item); processQueue(...): the push and the synchronous
\* start of processQueue.  A started activation stands at the head of its
\* while loop; LoopStep below runs it before any other listener.
Push(item) ==
  LET queue == Append(messageQueue, [item EXCEPT !.id = nextId]) IN
  /\ messageQueue' = queue
  /\ nextId' = nextId + 1
  /\ IF ProcessQueueReturnsEarly(isProcessing, queue)
       THEN UNCHANGED <<isProcessing, looping, nDrains>>
       ELSE /\ isProcessing' = TRUE
            /\ looping' = looping + 1
            /\ nDrains' = nDrains + 1

----------------------------------------------------------------------------
(* app.message: filter, classification, dedup *)

\* Mutant: a bot's message is let through
MessageAcceptedFromBots(msg) ==
  /\ (msg.text # <<>> \/ msg.attachments \/ msg.files)
  /\ msg.user # ""
  /\ msg.ts # NoTs
  /\ msg.channel = MonitoredChannel
  /\ (msg.subtype = "" \/ msg.subtype = "file_share")

\* lines 992-996: the listener's early returns
MessageAccepted(msg) ==
  /\ (msg.text # <<>> \/ msg.attachments \/ msg.files)
  /\ msg.user # ""
  /\ msg.ts # NoTs
  /\ msg.channel = MonitoredChannel
  /\ ~msg.bot_id
  /\ (msg.subtype = "" \/ msg.subtype = "file_share")

\* msg.text?.includes(`<@${botUserId}>`)
IsBotMentioned(msg) == Includes(msg.text, BotMention)

\* ticketInfo?.ticketIdentifier || null, with
\* ticketInfo = msg.thread_ts ? threadTicketMap.get(msg.thread_ts) : null
TicketContext(msg, ttm) ==
  IF msg.thread_ts # NoTs /\ MapHas(ttm, msg.thread_ts)
       /\ ttm[msg.thread_ts].ticketIdentifier # ""
    THEN ttm[msg.thread_ts].ticketIdentifier
    ELSE Null

\* Mutant: a deferred thread is treated like a tracked one
ClassifyReplyNoDeferred(msg, ttm) ==
  LET common == [BaseItem EXCEPT !.messageTs = msg.ts, !.threadTs = msg.thread_ts,
                                 !.userId = msg.user, !.text = msg.text] IN
  IF MapHas(ttm, msg.thread_ts)
    THEN LET ticketInfo == ttm[msg.thread_ts] IN
         [common EXCEPT !.type = "thread_reply",
                        !.ticketId = ticketInfo.ticketId,
                        !.ticketIdentifier = ticketInfo.ticketIdentifier,
                        !.isDuplicate = ticketInfo.isDuplicate,
                        !.isSameReporter = (ticketInfo.originalReporterId = msg.user)]
    ELSE [common EXCEPT !.type = "orphan_thread"]

\* The item of the thread-reply branch, from the ThreadOutcome under thread_ts
ClassifyReply(msg, ttm) ==
  LET common == [BaseItem EXCEPT !.messageTs = msg.ts, !.threadTs = msg.thread_ts,
                                 !.userId = msg.user, !.text = msg.text] IN
  IF MapHas(ttm, msg.thread_ts)
    THEN LET ticketInfo == ttm[msg.thread_ts] IN
         IF ticketInfo.isDeferred
           THEN [common EXCEPT !.type = "deferred_followup",
                               !.originalContext = ticketInfo.originalContext]
           ELSE [common EXCEPT !.type = "thread_reply",
                               !.ticketId = ticketInfo.ticketId,
                               !.ticketIdentifier = ticketInfo.ticketIdentifier,
                               !.isDuplicate = ticketInfo.isDuplicate,
                               !.isSameReporter = (ticketInfo.originalReporterId = msg.user)]
    ELSE [common EXCEPT !.type = "orphan_thread"]

\* Mutant: the thread and dedup checks come before the mention check
ClassifyMessageMentionLast(msg, ttm, processed) ==
  IF msg.thread_ts # NoTs /\ msg.thread_ts # msg.ts
    THEN ClassifyReply(msg, ttm)
  ELSE IF msg.ts \in Range(processed)
    THEN NoItem
  ELSE IF IsBotMentioned(msg)
    THEN [BaseItem EXCEPT !.type = "direct_command", !.text = msg.text,
                          !.userId = msg.user,
                          !.threadTs = IF msg.thread_ts # NoTs THEN msg.thread_ts ELSE msg.ts,
                          !.messageTs = msg.ts,
                          !.ticketContext = TicketContext(msg, ttm)]
  ELSE [BaseItem EXCEPT !.type = "new", !.text = msg.text, !.userId = msg.user,
                        !.messageTs = msg.ts]

\* The item app.message pushes for an accepted message, NoItem when it pushes none
ClassifyMessage(msg, ttm, processed) ==
  IF IsBotMentioned(msg)
    THEN [BaseItem EXCEPT !.type = "direct_command", !.text = msg.text,
                          !.userId = msg.user,
                          !.threadTs = IF msg.thread_ts # NoTs THEN msg.thread_ts ELSE msg.ts,
                          !.messageTs = msg.ts,
                          !.ticketContext = TicketContext(msg, ttm)]
  ELSE IF msg.thread_ts # NoTs /\ msg.thread_ts # msg.ts
    THEN ClassifyReply(msg, ttm)
  ELSE IF msg.ts \in Range(processed)
    THEN NoItem
  ELSE [BaseItem EXCEPT !.type = "new", !.text = msg.text, !.userId = msg.user,
                        !.messageTs = msg.ts]

\* Mutant: the trim drops the newest entries and keeps the oldest
DedupAddEvictsNewest(processed, ts) ==
  LET added == IF ts \in Range(processed) THEN processed ELSE Append(processed, ts) IN
  IF Len(added) > DedupCap
    THEN SubSeq(added, 1, Len(added) - DedupTrim)
    ELSE added

\* Mutant: the timestamp is never remembered
DedupAddForgets(processed, ts) == processed

\* processedMessages.add(ts); if (size > 1000) delete the first 500 of Array.from(set)
DedupAdd(processed, ts) ==
  LET added == IF ts \in Range(processed) THEN processed ELSE Append(processed, ts) IN
  IF Len(added) > DedupCap
    THEN SubSeq(added, DedupTrim + 1, Len(added))
    ELSE added

\* Mutant: no return after the push of a direct command: a top-level mention goes
\* on to the dedup check and is pushed as "new" as well
OnMessageFallsThrough(msg) ==
  /\ phase = "live"
  /\ looping = 0
  /\ UNCHANGED <<threadTicketMap, messageTicketMap, now, inflight, started, finished,
                 threw, nTicks, phase, scan, lastCall,
                 connect, reactions>>
  /\ IF ~MessageAccepted(msg)
       THEN /\ lastOutcome' = "filtered"
            /\ UNCHANGED <<processedMessages, messageQueue, isProcessing, looping, nextId,
                           nDrains>>
       ELSE LET item == ClassifyMessage(msg, threadTicketMap, processedMessages) IN
            IF item = NoItem
              THEN /\ lastOutcome' = "deduped"
                   /\ UNCHANGED <<processedMessages, messageQueue, isProcessing, looping,
                                  nextId, nDrains>>
            ELSE IF /\ item.type = "direct_command"
                    /\ ~(msg.thread_ts # NoTs /\ msg.thread_ts # msg.ts)
                    /\ msg.ts \notin Range(processedMessages)
              THEN /\ lastOutcome' = "pushed"
                   /\ processedMessages' = DedupAdd(processedMessages, msg.ts)
                   /\ messageQueue' =
                        messageQueue \o
                        <<[item EXCEPT !.id = nextId],
                          [BaseItem EXCEPT !.id = nextId + 1, !.type = "new",
                                           !.text = msg.text, !.userId = msg.user,
                                           !.messageTs = msg.ts]>>
                   /\ nextId' = nextId + 2
                   /\ IF isProcessing
                        THEN UNCHANGED <<isProcessing, looping, nDrains>>
                        ELSE /\ isProcessing' = TRUE
                             /\ looping' = looping + 1
                             /\ nDrains' = nDrains + 1
              ELSE /\ lastOutcome' = "pushed"
                   /\ processedMessages' = IF item.type = "new"
                                             THEN DedupAdd(processedMessages, msg.ts)
                                             ELSE processedMessages
                   /\ Push(item)

OnMessage(msg) ==
  /\ phase = "live"
  /\ looping = 0
  /\ UNCHANGED <<threadTicketMap, messageTicketMap, now, inflight, started, finished,
                 threw, nTicks, phase, scan, lastCall,
                 connect, reactions>>
  /\ IF ~MessageAccepted(msg)
       THEN /\ lastOutcome' = "filtered"
            /\ UNCHANGED <<processedMessages, messageQueue, isProcessing, looping, nextId,
                           nDrains>>
       ELSE LET item == ClassifyMessage(msg, threadTicketMap, processedMessages) IN
            IF item = NoItem
              THEN /\ lastOutcome' = "deduped"
                   /\ UNCHANGED <<processedMessages, messageQueue, isProcessing, looping,
                                  nextId, nDrains>>
              ELSE /\ lastOutcome' = "pushed"
                   /\ processedMessages' = IF item.type = "new"
                                             THEN DedupAdd(processedMessages, msg.ts)
                                             ELSE processedMessages
                   /\ Push(item)

----------------------------------------------------------------------------
(* app.event("message"): edits and deletes *)

\* lines 1123-1127: the edit listener's early returns
EditAccepted(ev) ==
  /\ ev.subtype = "message_changed"
  /\ ev.hasMessage /\ ev.hasPrevious
  /\ ev.user # "" /\ ev.ts # NoTs
  /\ ev.channel = MonitoredChannel
  /\ ~ev.bot_id

OnMessageChanged(ev) ==
  /\ phase = "live"
  /\ looping = 0
  /\ UNCHANGED <<processedMessages, threadTicketMap, messageTicketMap, now, inflight,
                 started, finished, threw, nTicks, phase, scan, lastCall,
                 connect, reactions>>
  /\ lastOutcome' = IF EditAccepted(ev) THEN "pushed" ELSE "filtered"
  /\ IF EditAccepted(ev)
       THEN Push([BaseItem EXCEPT !.type = "message_edited", !.messageTs = ev.ts,
                                  !.text = ev.text, !.previousText = ev.previousText,
                                  !.userId = ev.user])
       ELSE UNCHANGED <<messageQueue, isProcessing, looping, nextId, nDrains>>

\* lines 1159-1161: the delete listener's early returns
DeleteAccepted(ev) ==
  /\ ev.subtype = "message_deleted"
  /\ ev.deleted_ts # NoTs
  /\ ev.channel = MonitoredChannel

OnMessageDeleted(ev) ==
  /\ phase = "live"
  /\ looping = 0
  /\ UNCHANGED <<processedMessages, threadTicketMap, messageTicketMap, now, inflight,
                 started, finished, threw, nTicks, phase, scan, lastCall,
                 connect, reactions>>
  /\ lastOutcome' = IF DeleteAccepted(ev) THEN "pushed" ELSE "filtered"
  /\ IF DeleteAccepted(ev)
       THEN Push([BaseItem EXCEPT !.type = "message_deleted", !.messageTs = ev.deleted_ts,
                                  !.threadTs = ev.thread_ts])
       ELSE UNCHANGED <<messageQueue, isProcessing, looping, nextId, nDrains>>

----------------------------------------------------------------------------
(* TTL housekeeping *)

\* delete every entry with now - createdAt > maxAge
cleanupOldThreadMappings(ttm, t) ==
  [k \in {x \in DOMAIN ttm : ~(t - ttm[x].createdAt > maxAge)} |-> ttm[k]]

cleanupOldMessageMappings(mtm, t) ==
  [k \in {x \in DOMAIN mtm : ~(t - mtm[x].createdAt > maxAge)} |-> mtm[k]]

----------------------------------------------------------------------------
(* The edit handler's whitespace normalization *)

\* \s: a text is a sequence of characters; blank, tab and newline are the whitespace
IsSpace(c) == c \in {" ", "\t", "\n"}

\* text.trim()
RECURSIVE TrimLeft(_)
TrimLeft(text) ==
  IF text # <<>> /\ IsSpace(Head(text)) THEN TrimLeft(Tail(text)) ELSE text

RECURSIVE TrimRight(_)
TrimRight(text) ==
  IF text # <<>> /\ IsSpace(text[Len(text)])
    THEN TrimRight(SubSeq(text, 1, Len(text) - 1))
    ELSE text

\* text.replace(/\s+/g, " ")
RECURSIVE CollapseSpaces(_)
CollapseSpaces(text) ==
  IF text = <<>> THEN <<>>
  ELSE IF IsSpace(Head(text))
    THEN <<" ">> \o CollapseSpaces(TrimLeft(text))
    ELSE <<Head(text)>> \o CollapseSpaces(Tail(text))

\* Mutant: no trim before the collapse
NormalizeNoTrim(text) == CollapseSpaces(text)

Normalize(text) == CollapseSpaces(TrimRight(TrimLeft(text)))

----------------------------------------------------------------------------
(* processQueue: the drain loop *)

\* Types whose handler always reaches an await (Slack, Linear CDN or the agent)
\* before it touches the maps
AwaitingTypes == {"new", "thread_reply", "orphan_thread", "deferred_followup",
                  "direct_command"}

\* processEditedMessageHandler / processDeletedMessageHandler up to their first
\* await: TRUE when the handler returns before calling the agent
EditReturnsEarly(item, mtm) ==
  \/ ~MapHas(mtm, item.messageTs)
  \/ ~mtm[item.messageTs].wasTriaged
  \/ Normalize(item.previousText) = Normalize(item.text)

\* Mutant: the delete handler does not test wasTriaged
DeleteReturnsEarlyUntriaged(item, mtm) == ~MapHas(mtm, item.messageTs)

DeleteReturnsEarly(item, mtm) ==
  \/ ~MapHas(mtm, item.messageTs)
  \/ ~mtm[item.messageTs].wasTriaged

HandlerReturnsEarly(item, mtm) ==
  \/ item.type = "message_edited" /\ EditReturnsEarly(item, mtm)
  \/ item.type = "message_deleted" /\ DeleteReturnsEarly(item, mtm)

\* A call to an entry point of the agent, with the arguments the claims are about;
\* fn is "" for a handler that returned without one
NoCall ==
  [id |-> 0, fn |-> "", ticketId |-> "", ticketIdentifier |-> "", action |-> "",
   originalText |-> <<>>, editedText |-> <<>>]

\* lines 914-921 and 950-955: handleMessageEdit({ticketId, ticketIdentifier,
\* originalText, editedText, userId, action}), handleMessageDelete({ticketId,
\* ticketIdentifier, messageTs, action}), both from the MessageOutcome just read
EditOrDeleteCall(item, ticketInfo) ==
  IF item.type = "message_edited"
    THEN [NoCall EXCEPT !.id = item.id, !.fn = "handleMessageEdit",
                        !.ticketId = ticketInfo.ticketId,
                        !.ticketIdentifier = ticketInfo.ticketIdentifier,
                        !.action = ticketInfo.action,
                        !.originalText = item.previousText,
                        !.editedText = item.text]
    ELSE [NoCall EXCEPT !.id = item.id, !.fn = "handleMessageDelete",
                        !.ticketId = ticketInfo.ticketId,
                        !.ticketIdentifier = ticketInfo.ticketIdentifier,
                        !.action = ticketInfo.action]

\* app.client.reactions.add({timestamp: msg.ts, name: "robot_face"}) at the head of
\* processNewMessage, not awaited: the request is sent; a message that has the
\* reaction keeps it (already_reacted)
ReactionsAdd(r, ts) == IF MapHas(r, ts) /\ r[ts] = "added" THEN r ELSE MapSet(r, ts, "sent")

\* Slack applies a request that was sent: the message carries robot_face from now on
ReactionAdded(ts) ==
  /\ MapHas(reactions, ts)
  /\ reactions[ts] = "sent"
  /\ reactions' = MapSet(reactions, ts, "added")
  /\ UNCHANGED <<processedMessages, messageQueue, isProcessing, threadTicketMap,
                 messageTicketMap, now, looping, inflight, nextId, started, finished,
                 threw, nDrains, nTicks, phase, lastOutcome, lastCall, scan, connect>>

\* Mutant: pop() in place of shift()
Pop(queue) == [item |-> queue[Len(queue)], rest |-> SubSeq(queue, 1, Len(queue) - 1)]

\* Mutant: the category of a reply is read from threadTicketMap again at dispatch
ShiftReclassifies(queue) ==
  [item |-> IF Head(queue).type = "orphan_thread"
                 /\ MapHas(threadTicketMap, Head(queue).threadTs)
              THEN [Head(queue) EXCEPT
                      !.type = "thread_reply",
                      !.ticketId = threadTicketMap[Head(queue).threadTs].ticketId,
                      !.ticketIdentifier =
                         threadTicketMap[Head(queue).threadTs].ticketIdentifier]
              ELSE Head(queue),
   rest |-> Tail(queue)]

\* messageQueue.shift(): the first item and the queue without it
Shift(queue) == [item |-> Head(queue), rest |-> Tail(queue)]

\* while (messageQueue.length > 0) { const item = messageQueue.shift()!; await handler(item.data)
\* The handler runs to its first await (in flight) or returns at once.
LoopStep ==
  /\ phase # "exited"
  /\ looping > 0
  /\ Len(messageQueue) > 0
  /\ LET item == Shift(messageQueue).item IN
     /\ messageQueue' = Shift(messageQueue).rest
     /\ started' = Append(started, item.id)
     /\ reactions' = IF item.type = "new"
                       THEN ReactionsAdd(reactions, item.messageTs)
                       ELSE reactions
     /\ IF HandlerReturnsEarly(item, messageTicketMap)
          THEN /\ finished' = Append(finished, item.id)
               /\ lastCall' = [NoCall EXCEPT !.id = item.id]
               /\ UNCHANGED <<looping, inflight>>
          ELSE /\ inflight' = inflight \cup
                      {[item |-> item,
                        info |-> IF item.type \in AwaitingTypes
                                   THEN NoInfo
                                   ELSE messageTicketMap[item.messageTs]]}
               /\ looping' = looping - 1
               /\ lastCall' = IF item.type \in AwaitingTypes
                                THEN lastCall
                                ELSE EditOrDeleteCall(item, messageTicketMap[item.messageTs])
               /\ UNCHANGED finished
  /\ UNCHANGED <<processedMessages, isProcessing, threadTicketMap, messageTicketMap, now,
                 nextId, threw, nDrains, nTicks, phase, scan, lastOutcome, connect>>

\* Mutant: the latch is not reset when the drain ends
LatchStaysSet == TRUE

\* finally { isProcessing = false; ... }
LatchAfterDrain == FALSE

\* the loop condition fails; finally { isProcessing = false; ... }.  The queue was
\* found empty in the same synchronous run, so the setImmediate branch is not taken.
DrainExit ==
  /\ phase # "exited"
  /\ looping > 0
  /\ Len(messageQueue) = 0
  /\ isProcessing' = LatchAfterDrain
  /\ looping' = looping - 1
  /\ UNCHANGED <<processedMessages, messageQueue, threadTicketMap, messageTicketMap, now,
                 inflight, nextId, started, finished, threw, nDrains, nTicks, phase, scan,
                 lastOutcome, lastCall,
                 connect, reactions>>

\* The handler of h leaves the in-flight set; its activation is back at the loop head
\* (a return and a caught throw alike).
HandlerLeaves(h) ==
  /\ phase # "exited"
  /\ inflight' = inflight \ {h}
  /\ looping' = looping + 1
  /\ finished' = Append(finished, h.item.id)
  /\ UNCHANGED <<processedMessages, messageQueue, isProcessing, now, nextId, started,
                 nDrains, nTicks, phase, scan, lastOutcome,
                 connect, reactions>>

\* Mutant: any handler may reject, processNewMessage included
CanThrowAny(item) == TRUE

\* The handlers with an await outside every try: conversations.replies in the four
\* thread handlers (the command handler reads the thread only for a command in a
\* thread).  processNewMessage and the edit and delete handlers await only calls
\* that catch their own errors.
CanThrow(item) ==
  \/ item.type \in {"thread_reply", "orphan_thread", "deferred_followup"}
  \/ item.type = "direct_command" /\ item.threadTs # NoTs /\ item.threadTs # item.messageTs

\* Mutant: no try/catch/finally around the handler: the rejection ends the
\* activation where it stands
HandlerThrowsUncaught(h) ==
  /\ phase # "exited"
  /\ h \in inflight
  /\ CanThrow(h.item)
  /\ inflight' = inflight \ {h}
  /\ finished' = Append(finished, h.item.id)
  /\ threw' = threw \cup {h.item.id}
  /\ lastCall' = [NoCall EXCEPT !.id = h.item.id]
  /\ UNCHANGED <<processedMessages, messageQueue, isProcessing, threadTicketMap,
                 messageTicketMap, now, looping, nextId, started, nDrains, nTicks, phase, scan,
                 lastOutcome,
                 connect, reactions>>

\* catch (error) { console.error(...) }: an await of the handler rejects
HandlerThrows(h) ==
  /\ h \in inflight
  /\ CanThrow(h.item)
  /\ HandlerLeaves(h)
  /\ threw' = threw \cup {h.item.id}
  /\ lastCall' = [NoCall EXCEPT !.id = h.item.id]
  /\ UNCHANGED <<threadTicketMap, messageTicketMap>>

----------------------------------------------------------------------------
(* The handlers' writes, after the agent's verdict *)

\* Mutant: the ticket-reference guard of the created / duplicate branch is missing
NewThreadWriteUnguarded(ttm, item, result, t) ==
  IF result.action \in {"created", "duplicate"}
    THEN cleanupOldThreadMappings(
           MapSet(ttm, item.messageTs,
                  [ticketId |-> OrElse(result.ticketId, result.ticketIdentifier),
                   ticketIdentifier |-> OrElse(result.ticketIdentifier, result.ticketId),
                   createdAt |-> t,
                   isDuplicate |-> (result.action = "duplicate"),
                   isDeferred |-> FALSE,
                   originalContext |-> <<>>,
                   originalReporterId |-> item.userId]), t)
  ELSE IF result.action = "deferred"
    THEN cleanupOldThreadMappings(
           MapSet(ttm, item.messageTs,
                  [ticketId |-> "",
                   ticketIdentifier |-> "",
                   createdAt |-> t,
                   isDuplicate |-> FALSE,
                   isDeferred |-> TRUE,
                   originalContext |-> item.text,
                   originalReporterId |-> item.userId]), t)
  ELSE ttm

\* Mutant: the entry takes the verdict's ticketId and ticketIdentifier as they are
NewThreadWriteNoFallback(ttm, item, result, t) ==
  IF result.action \in {"created", "duplicate"}
       /\ (result.ticketId # "" \/ result.ticketIdentifier # "")
    THEN cleanupOldThreadMappings(
           MapSet(ttm, item.messageTs,
                  [ticketId |-> result.ticketId,
                   ticketIdentifier |-> result.ticketIdentifier,
                   createdAt |-> t,
                   isDuplicate |-> (result.action = "duplicate"),
                   isDeferred |-> FALSE,
                   originalContext |-> <<>>,
                   originalReporterId |-> item.userId]), t)
  ELSE IF result.action = "deferred"
    THEN cleanupOldThreadMappings(
           MapSet(ttm, item.messageTs,
                  [ticketId |-> "",
                   ticketIdentifier |-> "",
                   createdAt |-> t,
                   isDuplicate |-> FALSE,
                   isDeferred |-> TRUE,
                   originalContext |-> item.text,
                   originalReporterId |-> item.userId]), t)
  ELSE ttm

\* processNewMessage, lines 514-537
NewThreadWrite(ttm, item, result, t) ==
  IF result.action \in {"created", "duplicate"}
       /\ (result.ticketId # "" \/ result.ticketIdentifier # "")
    THEN cleanupOldThreadMappings(
           MapSet(ttm, item.messageTs,
                  [ticketId |-> OrElse(result.ticketId, result.ticketIdentifier),
                   ticketIdentifier |-> OrElse(result.ticketIdentifier, result.ticketId),
                   createdAt |-> t,
                   isDuplicate |-> (result.action = "duplicate"),
                   isDeferred |-> FALSE,
                   originalContext |-> <<>>,
                   originalReporterId |-> item.userId]), t)
  ELSE IF result.action = "deferred"
    THEN cleanupOldThreadMappings(
           MapSet(ttm, item.messageTs,
                  [ticketId |-> "",
                   ticketIdentifier |-> "",
                   createdAt |-> t,
                   isDuplicate |-> FALSE,
                   isDeferred |-> TRUE,
                   originalContext |-> item.text,
                   originalReporterId |-> item.userId]), t)
  ELSE ttm

\* processNewMessage, lines 539-547
NewMessageWrite(mtm, item, result, t) ==
  cleanupOldMessageMappings(
    MapSet(mtm, item.messageTs,
           [ticketId |-> result.ticketId,
            ticketIdentifier |-> result.ticketIdentifier,
            createdAt |-> t,
            wasTriaged |-> (result.action \in {"created", "duplicate"}),
            action |-> result.action]), t)

ReturnNew(h, result) ==
  /\ h \in inflight
  /\ UNCHANGED threw
  /\ lastCall' = [NoCall EXCEPT !.id = h.item.id, !.fn = "triageMessage"]
  /\ h.item.type = "new"
  /\ threadTicketMap' = NewThreadWrite(threadTicketMap, h.item, result, now)
  /\ messageTicketMap' = NewMessageWrite(messageTicketMap, h.item, result, now)
  /\ HandlerLeaves(h)

\* extractTicketFromThread: the identifier in the first message whose text holds a
\* ticket link, Null when no message does.  A thread message is [text, link]: whether
\* it has text, and the identifier the URL pattern captures in it ("" when none).
RECURSIVE extractTicketFromThread(_)
extractTicketFromThread(messages) ==
  IF messages = <<>> THEN Null
  ELSE IF Head(messages).text /\ Head(messages).link # "" THEN Head(messages).link
  ELSE extractTicketFromThread(Tail(messages))

\* lines 606-607: extractedTicket?.ticketIdentifier || cached, for both fields
EffectiveTicket(item, messages) ==
  LET extracted == extractTicketFromThread(messages) IN
  [ticketId |-> IF extracted # Null THEN extracted ELSE item.ticketId,
   ticketIdentifier |-> IF extracted # Null THEN extracted ELSE item.ticketIdentifier]

\* Mutant: the handler stores the re-derived ticket in the ThreadOutcome
ReturnThreadReplyRefreshes(h, messages) ==
  /\ h \in inflight
  /\ UNCHANGED threw
  /\ lastCall' = [NoCall EXCEPT
                    !.id = h.item.id, !.fn = "handleThreadReply",
                    !.ticketId = EffectiveTicket(h.item, messages).ticketId,
                    !.ticketIdentifier = EffectiveTicket(h.item, messages).ticketIdentifier]
  /\ h.item.type = "thread_reply"
  /\ threadTicketMap' =
       IF MapHas(threadTicketMap, h.item.threadTs)
         THEN MapSet(threadTicketMap, h.item.threadTs,
                     [threadTicketMap[h.item.threadTs] EXCEPT
                        !.ticketIdentifier =
                           EffectiveTicket(h.item, messages).ticketIdentifier])
         ELSE threadTicketMap
  /\ UNCHANGED messageTicketMap
  /\ HandlerLeaves(h)

\* processThreadReplyHandler: conversations.replies returned messages; the ticket is
\* re-derived and handleThreadReply is called; no write to the maps or the dedup set
ReturnThreadReply(h, messages) ==
  /\ h \in inflight
  /\ UNCHANGED threw
  /\ lastCall' = [NoCall EXCEPT
                    !.id = h.item.id, !.fn = "handleThreadReply",
                    !.ticketId = EffectiveTicket(h.item, messages).ticketId,
                    !.ticketIdentifier = EffectiveTicket(h.item, messages).ticketIdentifier]
  /\ h.item.type = "thread_reply"
  /\ UNCHANGED <<threadTicketMap, messageTicketMap>>
  /\ HandlerLeaves(h)

\* Mutant: a ticketIdentifier alone is taken for a ticket reference, as in the "new"
\* handler
OrphanThreadWriteAnyReference(ttm, item, result, t) ==
  IF result.action \in {"created", "updated"}
       /\ (result.ticketId # "" \/ result.ticketIdentifier # "")
    THEN MapSet(ttm, item.threadTs,
                [ticketId |-> OrElse(result.ticketId, result.ticketIdentifier),
                 ticketIdentifier |-> OrElse(result.ticketIdentifier, result.ticketId),
                 createdAt |-> t,
                 isDuplicate |-> (result.action = "updated"),
                 isDeferred |-> FALSE,
                 originalContext |-> <<>>,
                 originalReporterId |-> item.userId])
    ELSE ttm

\* processOrphanThreadHandler, lines 711-721
OrphanThreadWrite(ttm, item, result, t) ==
  IF result.action \in {"created", "updated"} /\ result.ticketId # ""
    THEN MapSet(ttm, item.threadTs,
                [ticketId |-> result.ticketId,
                 ticketIdentifier |-> OrElse(result.ticketIdentifier, result.ticketId),
                 createdAt |-> t,
                 isDuplicate |-> (result.action = "updated"),
                 isDeferred |-> FALSE,
                 originalContext |-> <<>>,
                 originalReporterId |-> item.userId])
    ELSE ttm

ReturnOrphanThread(h, result) ==
  /\ h \in inflight
  /\ UNCHANGED threw
  /\ lastCall' = [NoCall EXCEPT !.id = h.item.id, !.fn = "triageOrphanThreadReply"]
  /\ h.item.type = "orphan_thread"
  /\ threadTicketMap' = OrphanThreadWrite(threadTicketMap, h.item, result, now)
  /\ UNCHANGED messageTicketMap
  /\ HandlerLeaves(h)

\* Mutant: the upgrade writes an entry even when the thread has none
DeferredUpgradeCreates(ttm, item, result) ==
  IF result.action = "created" /\ result.ticketId # ""
    THEN MapSet(ttm, item.threadTs,
                IF MapHas(ttm, item.threadTs)
                  THEN [ttm[item.threadTs] EXCEPT
                          !.ticketId = result.ticketId,
                          !.ticketIdentifier = OrElse(result.ticketIdentifier, result.ticketId),
                          !.isDeferred = FALSE]
                  ELSE [ticketId |-> result.ticketId,
                        ticketIdentifier |-> OrElse(result.ticketIdentifier, result.ticketId),
                        createdAt |-> 0,
                        isDuplicate |-> FALSE,
                        isDeferred |-> FALSE,
                        originalContext |-> item.originalContext,
                        originalReporterId |-> item.userId])
    ELSE ttm

\* Mutant: the upgrade fills in the ticket and leaves isDeferred as it is
DeferredUpgradeKeepsFlag(ttm, item, result) ==
  IF result.action = "created" /\ result.ticketId # "" /\ MapHas(ttm, item.threadTs)
    THEN MapSet(ttm, item.threadTs,
                [ttm[item.threadTs] EXCEPT
                   !.ticketId = result.ticketId,
                   !.ticketIdentifier = OrElse(result.ticketIdentifier, result.ticketId)])
    ELSE ttm

\* Mutant: the upgrade stamps the entry with the time of the upgrade
DeferredUpgradeRestartsClock(ttm, item, result) ==
  IF result.action = "created" /\ result.ticketId # "" /\ MapHas(ttm, item.threadTs)
    THEN MapSet(ttm, item.threadTs,
                [ttm[item.threadTs] EXCEPT
                   !.ticketId = result.ticketId,
                   !.ticketIdentifier = OrElse(result.ticketIdentifier, result.ticketId),
                   !.isDeferred = FALSE,
                   !.createdAt = now])
    ELSE ttm

\* processDeferredFollowupHandler, lines 790-801
DeferredUpgrade(ttm, item, result) ==
  IF result.action = "created" /\ result.ticketId # "" /\ MapHas(ttm, item.threadTs)
    THEN MapSet(ttm, item.threadTs,
                [ttm[item.threadTs] EXCEPT
                   !.ticketId = result.ticketId,
                   !.ticketIdentifier = OrElse(result.ticketIdentifier, result.ticketId),
                   !.isDeferred = FALSE])
    ELSE ttm

ReturnDeferredFollowup(h, result) ==
  /\ h \in inflight
  /\ UNCHANGED threw
  /\ lastCall' = [NoCall EXCEPT !.id = h.item.id, !.fn = "handleDeferredFollowup"]
  /\ h.item.type = "deferred_followup"
  /\ threadTicketMap' = DeferredUpgrade(threadTicketMap, h.item, result)
  /\ UNCHANGED messageTicketMap
  /\ HandlerLeaves(h)

\* processDirectCommandHandler: no write
ReturnDirectCommand(h) ==
  /\ h \in inflight
  /\ UNCHANGED threw
  /\ lastCall' = [NoCall EXCEPT !.id = h.item.id, !.fn = "handleDirectCommand"]
  /\ h.item.type = "direct_command"
  /\ UNCHANGED <<threadTicketMap, messageTicketMap>>
  /\ HandlerLeaves(h)

\* processEditedMessageHandler after handleMessageEdit: no write
ReturnEdited(h) ==
  /\ h \in inflight
  /\ UNCHANGED <<threw, lastCall>>
  /\ h.item.type = "message_edited"
  /\ UNCHANGED <<threadTicketMap, messageTicketMap>>
  /\ HandlerLeaves(h)

\* Mutant: the delete handler removes the MessageOutcome alone
ReturnDeletedKeepsThread(h) ==
  /\ h \in inflight
  /\ UNCHANGED <<threw, lastCall>>
  /\ h.item.type = "message_deleted"
  /\ messageTicketMap' = MapDelete(messageTicketMap, h.item.messageTs)
  /\ UNCHANGED threadTicketMap
  /\ HandlerLeaves(h)

\* Mutant: without a thread key the ThreadOutcome under the message's own timestamp
\* is removed
ReturnDeletedByMessageTs(h) ==
  /\ h \in inflight
  /\ UNCHANGED <<threw, lastCall>>
  /\ h.item.type = "message_deleted"
  /\ messageTicketMap' = MapDelete(messageTicketMap, h.item.messageTs)
  /\ threadTicketMap' = IF h.item.threadTs # NoTs
                          THEN MapDelete(threadTicketMap, h.item.threadTs)
                          ELSE MapDelete(threadTicketMap, h.item.messageTs)
  /\ HandlerLeaves(h)

\* processDeletedMessageHandler after handleMessageDelete, lines 957-960
ReturnDeleted(h) ==
  /\ h \in inflight
  /\ UNCHANGED <<threw, lastCall>>
  /\ h.item.type = "message_deleted"
  /\ messageTicketMap' = MapDelete(messageTicketMap, h.item.messageTs)
  /\ threadTicketMap' = IF h.item.threadTs # NoTs
                          THEN MapDelete(threadTicketMap, h.item.threadTs)
                          ELSE threadTicketMap
  /\ HandlerLeaves(h)

----------------------------------------------------------------------------
(* Wall clock *)

\* Date.now() moves on while the process waits
Tick(d) ==
  /\ looping = 0
  /\ now' = now + d
  /\ nTicks' = nTicks + 1
  /\ UNCHANGED <<processedMessages, messageQueue, isProcessing, threadTicketMap,
                 messageTicketMap, looping, inflight, nextId, started, finished, threw,
                 nDrains, phase, scan, lastOutcome, lastCall,
                 connect, reactions>>

----------------------------------------------------------------------------
(* main(): connection, recovery and start; shutdown *)

\* The locals of connectToLinearWithRetry at its first attempt; delays is the history
\* of the timeouts it has waited for
FirstAttempt == [attempt |-> 1, delays |-> <<>>]

RECURSIVE Pow2(_)
Pow2(n) == IF n = 0 THEN 1 ELSE 2 * Pow2(n - 1)

ConnectOutcomes == {"ok", "network", "other"}

\* Mutant: the last attempt is retried as well
ConnectAttemptRetriesLast(outcome) ==
  /\ phase = "connect"
  /\ connect.attempt <= maxRetries
  /\ IF outcome = "ok"
       THEN phase' = "recover" /\ UNCHANGED connect
     ELSE IF outcome = "network" /\ connect.attempt <= maxRetries
       THEN /\ connect' = [attempt |-> connect.attempt + 1,
                           delays |-> Append(connect.delays,
                                             initialDelayMs * Pow2(connect.attempt - 1))]
            /\ UNCHANGED phase
     ELSE phase' = "exited" /\ UNCHANGED connect
  /\ UNCHANGED <<processedMessages, messageQueue, isProcessing, threadTicketMap,
                 messageTicketMap, now, looping, inflight, nextId, started, finished,
                 threw, nDrains, nTicks, lastOutcome, lastCall, scan, reactions>>

\* Mutant: every failure before the last attempt is retried
ConnectAttemptRetriesAny(outcome) ==
  /\ phase = "connect"
  /\ connect.attempt <= maxRetries
  /\ IF outcome = "ok"
       THEN phase' = "recover" /\ UNCHANGED connect
     ELSE IF connect.attempt < maxRetries
       THEN /\ connect' = [attempt |-> connect.attempt + 1,
                           delays |-> Append(connect.delays,
                                             initialDelayMs * Pow2(connect.attempt - 1))]
            /\ UNCHANGED phase
     ELSE phase' = "exited" /\ UNCHANGED connect
  /\ UNCHANGED <<processedMessages, messageQueue, isProcessing, threadTicketMap,
                 messageTicketMap, now, looping, inflight, nextId, started, finished,
                 threw, nDrains, nTicks, lastOutcome, lastCall, scan, reactions>>

\* One turn of the for loop: await linearClient.viewer; on success return, on a
\* network error before the last attempt wait initialDelayMs * 2^(attempt - 1) and
\* go on, on any other failure process.exit(1)
ConnectAttempt(outcome) ==
  /\ phase = "connect"
  /\ connect.attempt <= maxRetries
  /\ IF outcome = "ok"
       THEN phase' = "recover" /\ UNCHANGED connect
     ELSE IF outcome = "network" /\ connect.attempt < maxRetries
       THEN /\ connect' = [attempt |-> connect.attempt + 1,
                           delays |-> Append(connect.delays,
                                             initialDelayMs * Pow2(connect.attempt - 1))]
            /\ UNCHANGED phase
     ELSE phase' = "exited" /\ UNCHANGED connect
  /\ UNCHANGED <<processedMessages, messageQueue, isProcessing, threadTicketMap,
                 messageTicketMap, now, looping, inflight, nextId, started, finished,
                 threw, nDrains, nTicks, lastOutcome, lastCall, scan, reactions>>

\* SIGINT / SIGTERM once the handlers are registered (after app.start()): the first
\* signal sets isShuttingDown and awaits slackApp.stop(); a later one returns at
\* once.  isShuttingDown is phase \in {"stopping", "exited"}.  Like a listener, the
\* signal handler runs only between two synchronous runs of the program.
Signal ==
  /\ phase \in {"live", "stopping"}
  /\ looping = 0
  /\ phase' = "stopping"
  /\ UNCHANGED <<processedMessages, messageQueue, isProcessing, threadTicketMap,
                 messageTicketMap, now, looping, inflight, nextId, started, finished,
                 threw, nDrains, nTicks, lastOutcome, lastCall, scan, connect, reactions>>

\* slackApp.stop() has settled: process.exit(0)
StopSettles ==
  /\ phase = "stopping"
  /\ looping = 0
  /\ phase' = "exited"
  /\ UNCHANGED <<processedMessages, messageQueue, isProcessing, threadTicketMap,
                 messageTicketMap, now, looping, inflight, nextId, started, finished,
                 threw, nDrains, nTicks, lastOutcome, lastCall, scan, connect, reactions>>

\* hasRobotReaction: the marker the bot leaves on a message it has taken up
hasRobotReaction(msg) == "robot_face" \in msg.reactions

SkipSubtypes == {"channel_join", "channel_leave", "channel_topic", "channel_purpose"}

\* Mutant: the subtypes are a denylist only
isProcessableMessageDenylist(msg) ==
  /\ ~(msg.bot_id \/ msg.subtype = "bot_message")
  /\ ~(msg.thread_ts # NoTs /\ msg.thread_ts # msg.ts)
  /\ (msg.text # <<>> \/ msg.files \/ msg.attachments)
  /\ ~(msg.subtype # "" /\ msg.subtype \in SkipSubtypes)

\* isProcessableMessage: no bot message, no reply in a thread, some content, and no
\* subtype other than file_share
isProcessableMessage(msg) ==
  /\ ~(msg.bot_id \/ msg.subtype = "bot_message")
  /\ ~(msg.thread_ts # NoTs /\ msg.thread_ts # msg.ts)
  /\ (msg.text # <<>> \/ msg.files \/ msg.attachments)
  /\ ~(msg.subtype # "" /\ msg.subtype \in SkipSubtypes)
  /\ ~(msg.subtype # "" /\ msg.subtype # "file_share")

\* The locals of recoverMissedMessages before its loop; pages is the history of the
\* pages that conversations.history returned, scanning is the do-while still running
NoScan == [pages |-> <<>>, missedMessages |-> <<>>, foundLastProcessed |-> FALSE,
           scanning |-> TRUE]

\* for (const msg of result.messages): the marker breaks out of both loops, a message
\* that is not processable is passed over, any other is pushed to missedMessages
RECURSIVE ScanMessages(_, _)
ScanMessages(messages, acc) ==
  IF messages = <<>> THEN acc
  ELSE LET msg == Head(messages) IN
       IF hasRobotReaction(msg) THEN [acc EXCEPT !.foundLastProcessed = TRUE]
       ELSE ScanMessages(Tail(messages),
                         IF isProcessableMessage(msg)
                           THEN [acc EXCEPT !.missedMessages = Append(@, msg)]
                           ELSE acc)

\* One turn of the do-while: await conversations.history, scan the page, and go on
\* while no marker was met and the page came with a next_cursor
FetchHistoryPage(page, next_cursor) ==
  /\ phase = "recover"
  /\ scan.scanning
  /\ LET acc == ScanMessages(page, scan) IN
     scan' = [acc EXCEPT !.pages = Append(@, page),
                         !.scanning = ~acc.foundLastProcessed /\ next_cursor]
  /\ UNCHANGED <<processedMessages, messageQueue, isProcessing, threadTicketMap,
                 messageTicketMap, now, looping, inflight, nextId, started, finished,
                 threw, nDrains, nTicks, phase, lastOutcome, lastCall,
                 connect, reactions>>

Reverse(seq) == [i \in 1..Len(seq) |-> seq[Len(seq) + 1 - i]]

\* After the loop: without a marker and with messages collected it is a first run and
\* nothing is recovered; else missedMessages.reverse() is what is pushed
RecoveredNoGuard(acc) == Reverse(acc.missedMessages)

RecoveredNewestFirst(acc) ==
  IF ~acc.foundLastProcessed /\ Len(acc.missedMessages) > 0 THEN <<>>
  ELSE acc.missedMessages

Recovered(acc) ==
  IF ~acc.foundLastProcessed /\ Len(acc.missedMessages) > 0 THEN <<>>
  ELSE Reverse(acc.missedMessages)

\* recoverMissedMessages, lines 367-380: one "new" item per missed message, in the
\* order of the reversed scan.  missed is what the scan of the history collected.
RecoveredItems(missed, firstId) ==
  [i \in 1..Len(missed) |->
     [BaseItem EXCEPT !.id = firstId + i - 1, !.type = "new", !.text = missed[i].text,
                      !.userId = missed[i].user, !.messageTs = missed[i].ts]]

\* await recoverMissedMessages(); if (messageQueue.length > 0) await processQueue(...)
RecoverMissedMessages(missed) ==
  /\ phase = "recover"
  /\ LET queue == messageQueue \o RecoveredItems(missed, nextId) IN
     /\ messageQueue' = queue
     /\ nextId' = nextId + Len(missed)
     /\ IF Len(queue) > 0 /\ ~ProcessQueueReturnsEarly(isProcessing, queue)
          THEN /\ isProcessing' = TRUE
               /\ looping' = looping + 1
               /\ nDrains' = nDrains + 1
               /\ phase' = "drain"
          ELSE /\ phase' = "live"
               /\ UNCHANGED <<isProcessing, looping, nDrains>>
  /\ UNCHANGED <<processedMessages, threadTicketMap, messageTicketMap, now, inflight,
                 started, finished, threw, nTicks, lastOutcome, lastCall, scan,
                 connect, reactions>>

\* Mutant: app.start() is not held back by the await of processQueue
AppStartWithoutDrain ==
  /\ phase = "drain"
  /\ phase' = "live"
  /\ UNCHANGED <<processedMessages, messageQueue, isProcessing, threadTicketMap,
                 messageTicketMap, now, looping, inflight, nextId, started, finished,
                 threw, nDrains, nTicks, lastOutcome, lastCall, scan, connect, reactions>>

\* the awaited processQueue has ended; await app.start(): live events begin
AppStart ==
  /\ phase = "drain"
  /\ ~isProcessing /\ looping = 0
  /\ phase' = "live"
  /\ UNCHANGED <<processedMessages, messageQueue, isProcessing, threadTicketMap,
                 messageTicketMap, now, looping, inflight, nextId, started, finished,
                 threw, nDrains, nTicks, lastOutcome, lastCall, scan,
                 connect, reactions>>

----------------------------------------------------------------------------
(* Inputs *)

PlainText == <<"login", "fails">>
Texts == {PlainText, <<BotMention, "close">>}

TicketIds == {"", "uuid-1"}
TicketIdentifiers == {"", "ENG-42"}

\* Messages that pass the listener's filter: every shape of timestamp, thread and
\* text from one author, and the replies of a second author
AcceptedMessages ==
  LET m == [kind |-> "message", ts |-> 1, thread_ts |-> NoTs, user |-> "U1",
            text |-> PlainText, files |-> FALSE, attachments |-> FALSE,
            channel |-> MonitoredChannel, bot_id |-> FALSE, subtype |-> ""] IN
  {[m EXCEPT !.ts = t, !.thread_ts = th, !.text = x] :
     t \in Timestamps, th \in {NoTs} \cup Timestamps, x \in Texts}
  \cup
  {[m EXCEPT !.ts = p[1], !.thread_ts = p[2], !.user = "U2"] :
     p \in {q \in Timestamps \X Timestamps : q[1] # q[2]}}

\* One message per early return of the filter, and a file share without text
OtherMessages ==
  LET m == [kind |-> "message", ts |-> 1, thread_ts |-> NoTs, user |-> "U1",
            text |-> PlainText, files |-> FALSE, attachments |-> FALSE,
            channel |-> MonitoredChannel, bot_id |-> FALSE, subtype |-> ""] IN
  {[m EXCEPT !.text = <<>>],
   [m EXCEPT !.text = <<>>, !.files = TRUE, !.subtype = "file_share"],
   [m EXCEPT !.user = ""],
   [m EXCEPT !.channel = "C_OTHER"],
   [m EXCEPT !.bot_id = TRUE],
   [m EXCEPT !.subtype = "channel_join"]}

MessageEvents == AcceptedMessages \cup OtherMessages

EditEvents ==
  LET e == [kind |-> "message_changed", subtype |-> "message_changed", hasMessage |-> TRUE,
            hasPrevious |-> TRUE, ts |-> 1, user |-> "U1", text |-> <<"login", "works">>,
            previousText |-> PlainText, channel |-> MonitoredChannel, bot_id |-> FALSE] IN
  {e, [e EXCEPT !.text = <<"login", "fails", " ", " ">>], [e EXCEPT !.bot_id = TRUE]}

DeleteEvents ==
  LET d == [kind |-> "message_deleted", subtype |-> "message_deleted", deleted_ts |-> 1,
            thread_ts |-> NoTs, channel |-> MonitoredChannel] IN
  {d, [d EXCEPT !.deleted_ts = 2, !.thread_ts = 1], [d EXCEPT !.channel = "C_OTHER"]}

\* Verdicts of triageMessage, triageOrphanThreadReply and handleDeferredFollowup
NewResults ==
  [action : {"created", "duplicate"}, ticketId : TicketIds,
   ticketIdentifier : TicketIdentifiers]
  \cup [action : {"skipped", "deferred", "error"}, ticketId : {""}, ticketIdentifier : {""}]

OrphanResults ==
  [action : {"created", "updated"}, ticketId : TicketIds,
   ticketIdentifier : TicketIdentifiers]
  \cup [action : {"skipped", "error"}, ticketId : {""}, ticketIdentifier : {""}]

DeferredResults ==
  [action : {"created"}, ticketId : TicketIds, ticketIdentifier : TicketIdentifiers]
  \cup [action : {"no_action", "error"}, ticketId : {""}, ticketIdentifier : {""}]

\* What conversations.replies may return for a thread: nothing, messages without a
\* ticket link, the bot's link to ENG-42, and a link to another ticket ahead of it
ThreadHistories ==
  {<<>>,
   <<[text |-> TRUE, link |-> ""], [text |-> FALSE, link |-> ""]>>,
   <<[text |-> TRUE, link |-> ""], [text |-> TRUE, link |-> "ENG-42"]>>,
   <<[text |-> TRUE, link |-> "ENG-7"], [text |-> TRUE, link |-> "ENG-42"]>>}

\* 23h59m, then 2 more minutes
TickSteps == {maxAge - Minute, 2 * Minute}

----------------------------------------------------------------------------
(* Specification *)

\* The process after startup found nothing to recover: empty queue, maps and set
Init ==
  /\ processedMessages = <<>>
  /\ messageQueue = <<>>
  /\ isProcessing = FALSE
  /\ threadTicketMap = EmptyMap
  /\ messageTicketMap = EmptyMap
  /\ now = 0
  /\ looping = 0
  /\ inflight = {}
  /\ nextId = 1
  /\ started = <<>>
  /\ finished = <<>>
  /\ threw = {}
  /\ nDrains = 0
  /\ nTicks = 0
  /\ phase = "live"
  /\ lastOutcome = "none"
  /\ lastCall = NoCall
  /\ scan = NoScan
  /\ connect = FirstAttempt
  /\ reactions = EmptyMap

\* Slack delivers a live event to its listener
Delivers(maxEvents, messages, edits, deletes) ==
  /\ nextId <= maxEvents
  /\ \/ \E msg \in messages : OnMessage(msg)
     \/ \E ev \in edits : OnMessageChanged(ev)
     \/ \E ev \in deletes : OnMessageDeleted(ev)

\* An activation of processQueue takes its next step
Drain ==
  \/ LoopStep
  \/ DrainExit

\* The await of a handler in flight settles
Completes(newResults, orphanResults, deferredResults, histories) ==
  \/ \E h \in inflight : HandlerThrows(h)
  \/ \E h \in inflight : \E result \in newResults : ReturnNew(h, result)
  \/ \E h \in inflight : \E messages \in histories : ReturnThreadReply(h, messages)
  \/ \E h \in inflight : \E result \in orphanResults : ReturnOrphanThread(h, result)
  \/ \E h \in inflight : \E result \in deferredResults : ReturnDeferredFollowup(h, result)
  \/ \E h \in inflight : ReturnDirectCommand(h)
  \/ \E h \in inflight : ReturnEdited(h)
  \/ \E h \in inflight : ReturnDeleted(h)

Ticks ==
  /\ nTicks < MaxTicks
  /\ \E d \in TickSteps : Tick(d)

\* Classification and dispatch, on every shape of event and verdict; the clock stands
Next ==
  \/ Delivers(MaxEvents, MessageEvents, EditEvents, DeleteEvents)
  \/ Drain
  \/ Completes(NewResults, OrphanResults, DeferredResults, ThreadHistories)

Spec == Init /\ [][Next]_vars

----------------------------------------------------------------------------
(* The queue alone: one event of each kind, few verdicts, more events *)

QueueMessages ==
  {m \in AcceptedMessages :
     /\ m.user = "U1"
     /\ \/ m.ts = 1 /\ m.thread_ts = NoTs /\ m.text = PlainText
        \/ m.ts = 2 /\ m.thread_ts = 1 /\ m.text = PlainText
        \/ m.ts = 2 /\ m.thread_ts = NoTs /\ m.text # PlainText}

QueueEdits ==
  {e \in EditEvents : e.ts = 1 /\ e.text = <<"login", "works">> /\ ~e.bot_id}

QueueDeletes ==
  {e \in DeleteEvents : e.deleted_ts = 1 /\ e.thread_ts = NoTs
                        /\ e.channel = MonitoredChannel}

QueueNewResults ==
  {r \in NewResults :
     \/ r.action = "created" /\ r.ticketId # "" /\ r.ticketIdentifier # ""
     \/ r.action = "deferred" /\ r.ticketId = "" /\ r.ticketIdentifier = ""}

QueueOrphanResults ==
  {r \in OrphanResults : r.action = "skipped" /\ r.ticketId = "" /\ r.ticketIdentifier = ""}

QueueDeferredResults ==
  {r \in DeferredResults :
     r.action = "no_action" /\ r.ticketId = "" /\ r.ticketIdentifier = ""}

\* The thread as conversations.replies returns it: no ticket link
QueueHistories == {<<[text |-> TRUE, link |-> ""]>>}

QueueCompletes ==
  Completes(QueueNewResults, QueueOrphanResults, QueueDeferredResults, QueueHistories)

\* What the scan at startup may have collected: nothing, one or two top-level messages
QueueBacklogs ==
  LET m(t) == CHOOSE x \in AcceptedMessages :
                x.ts = t /\ x.thread_ts = NoTs /\ x.user = "U1" /\ x.text = PlainText IN
  {<<>>, <<m(1)>>, <<m(1), m(2)>>}

\* main() before recovery
InitStartup ==
  /\ processedMessages = <<>>
  /\ messageQueue = <<>>
  /\ isProcessing = FALSE
  /\ threadTicketMap = EmptyMap
  /\ messageTicketMap = EmptyMap
  /\ now = 0
  /\ looping = 0
  /\ inflight = {}
  /\ nextId = 1
  /\ started = <<>>
  /\ finished = <<>>
  /\ threw = {}
  /\ nDrains = 0
  /\ nTicks = 0
  /\ phase = "recover"
  /\ lastOutcome = "none"
  /\ lastCall = NoCall
  /\ scan = NoScan
  /\ connect = FirstAttempt
  /\ reactions = EmptyMap

Startup ==
  \/ \E missed \in QueueBacklogs : RecoverMissedMessages(missed)
  \/ AppStart

NextQueue ==
  \/ Startup
  \/ Delivers(MaxQueueEvents, QueueMessages, QueueEdits, QueueDeletes)
  \/ Drain
  \/ QueueCompletes

SpecQueue == InitStartup /\ [][NextQueue]_vars

\* Node runs a continuation that is ready, and (the assumption of the liveness
\* claims) every await of a handler settles
FairQueue == SpecQueue /\ WF_vars(Startup) /\ WF_vars(Drain) /\ WF_vars(QueueCompletes)

----------------------------------------------------------------------------
(* Recovery at startup: the scan of the channel history *)

\* The shapes a message of the history may have: a plain top-level message, a
\* file without text, one that carries the marker, a reply in a thread, and a
\* message of the bot that carries the marker
HistoryShapes == {"plain", "file", "marked", "reply", "bot_marked"}

HistoryMessage(shape, ts) ==
  [kind |-> "message", ts |-> ts,
   thread_ts |-> IF shape = "reply" THEN ts + 1 ELSE NoTs,
   user |-> "U1",
   text |-> IF shape = "file" THEN <<>> ELSE PlainText,
   files |-> shape = "file",
   attachments |-> FALSE,
   channel |-> MonitoredChannel,
   bot_id |-> shape = "bot_marked",
   subtype |-> IF shape = "file" THEN "file_share" ELSE "",
   reactions |-> IF shape \in {"marked", "bot_marked"} THEN {"robot_face"} ELSE {}]

PageLengths == 0..2

PageShapes == UNION {[1..n -> HistoryShapes] : n \in PageLengths}

\* conversations.history returns the newest message first: timestamps fall from
\* page to page and within a page
NewestTs == 2 * MaxPages

RECURSIVE Fetched(_)
Fetched(pages) == IF pages = <<>> THEN 0 ELSE Len(Head(pages)) + Fetched(Tail(pages))

HistoryPage(shapes, before) ==
  [i \in 1..Len(shapes) |-> HistoryMessage(shapes[i], NewestTs - before - i + 1)]

\* Slack returns up to MaxPages pages; the last one comes without a next_cursor
ScanStep ==
  \E shapes \in PageShapes, next_cursor \in BOOLEAN :
    /\ Len(scan.pages) < MaxPages
    /\ next_cursor => Len(scan.pages) + 1 < MaxPages
    /\ FetchHistoryPage(HistoryPage(shapes, Fetched(scan.pages)), next_cursor)

\* the loop has ended: the guards, the reverse and the pushes, then the drain
FinishRecovery ==
  /\ ~scan.scanning
  /\ RecoverMissedMessages(Recovered(scan))

RecoveryResults == {[action |-> "skipped", ticketId |-> "", ticketIdentifier |-> ""]}

NextRecovery ==
  \/ ScanStep
  \/ FinishRecovery
  \/ AppStart
  \/ Drain
  \/ \E h \in inflight, r \in RecoveryResults : ReturnNew(h, r)

SpecRecovery == InitStartup /\ [][NextRecovery]_vars

----------------------------------------------------------------------------
(* isProcessableMessage on every shape of message: the newest message of a history
   whose next message carries the marker *)

FilterInputs ==
  {[HistoryMessage("plain", 2) EXCEPT !.bot_id = b, !.subtype = st, !.thread_ts = th,
                                      !.text = x, !.files = f, !.attachments = a] :
     b \in BOOLEAN,
     st \in {"", "file_share", "bot_message", "channel_join", "thread_broadcast"},
     th \in {NoTs, 2, 1}, x \in {<<>>, PlainText}, f \in BOOLEAN, a \in BOOLEAN}

FilterScanStep ==
  \E msg \in FilterInputs : FetchHistoryPage(<<msg, HistoryMessage("marked", 1)>>, FALSE)

NextFilter ==
  \/ FilterScanStep
  \/ FinishRecovery
  \/ AppStart
  \/ Drain
  \/ \E h \in inflight, r \in RecoveryResults : ReturnNew(h, r)

SpecFilter == InitStartup /\ [][NextFilter]_vars

----------------------------------------------------------------------------
(* Restart: recovery, then live events for the messages of the scanned history *)

RestartPageShapes == UNION {[1..n -> {"plain", "marked"}] : n \in PageLengths}

RestartScanStep ==
  \E shapes \in RestartPageShapes, next_cursor \in BOOLEAN :
    /\ Len(scan.pages) < MaxPages
    /\ next_cursor => Len(scan.pages) + 1 < MaxPages
    /\ FetchHistoryPage(HistoryPage(shapes, Fetched(scan.pages)), next_cursor)

\* The live event of a message of the history: Slack delivers it (again) once the
\* socket is open
RestartMessages == {HistoryMessage("plain", t) : t \in 1..NewestTs}

RestartResults ==
  {[action |-> "created", ticketId |-> "uuid-1", ticketIdentifier |-> "ENG-42"]}

NextRestart ==
  \/ RestartScanStep
  \/ FinishRecovery
  \/ AppStart
  \/ /\ nextId - Len(Recovered(scan)) <= MaxRestartEvents
     /\ \E msg \in RestartMessages : OnMessage(msg)
  \/ Drain
  \/ \E h \in inflight, r \in RestartResults : ReturnNew(h, r)

SpecRestart == InitStartup /\ [][NextRestart]_vars

----------------------------------------------------------------------------
(* main() from its start: the connection to Linear, then recovery and app.start() *)

InitMain ==
  /\ processedMessages = <<>>
  /\ messageQueue = <<>>
  /\ isProcessing = FALSE
  /\ threadTicketMap = EmptyMap
  /\ messageTicketMap = EmptyMap
  /\ now = 0
  /\ looping = 0
  /\ inflight = {}
  /\ nextId = 1
  /\ started = <<>>
  /\ finished = <<>>
  /\ threw = {}
  /\ nDrains = 0
  /\ nTicks = 0
  /\ phase = "connect"
  /\ lastOutcome = "none"
  /\ lastCall = NoCall
  /\ scan = NoScan
  /\ connect = FirstAttempt
  /\ reactions = EmptyMap

NextMain ==
  \/ \E outcome \in ConnectOutcomes : ConnectAttempt(outcome)
  \/ RestartScanStep
  \/ FinishRecovery
  \/ AppStart
  \/ Drain
  \/ \E h \in inflight, r \in RestartResults : ReturnNew(h, r)

SpecMain == InitMain /\ [][NextMain]_vars

----------------------------------------------------------------------------
(* Shutdown: termination signals while messages are queued and in flight *)

\* Top-level messages without a mention
MarkerMessages ==
  {m \in AcceptedMessages : m.thread_ts = NoTs /\ m.text = PlainText /\ m.user = "U1"}

NextShutdown ==
  \/ nextId <= MaxShutdownEvents /\ \E msg \in MarkerMessages : OnMessage(msg)
  \/ Drain
  \/ \E h \in inflight, r \in RestartResults : ReturnNew(h, r)
  \/ Signal
  \/ StopSettles

SpecShutdown == Init /\ [][NextShutdown]_vars

----------------------------------------------------------------------------
(* The robot_face marker: top-level messages, their triage and their reaction *)

MarkerResults ==
  {[action |-> "created", ticketId |-> "uuid-1", ticketIdentifier |-> "ENG-42"],
   [action |-> "error", ticketId |-> "", ticketIdentifier |-> ""]}

NextMarker ==
  \/ nextId <= MaxMarkerEvents /\ \E msg \in MarkerMessages : OnMessage(msg)
  \/ Drain
  \/ \E h \in inflight, r \in MarkerResults : ReturnNew(h, r)
  \/ \E ts \in Timestamps : ReactionAdded(ts)

SpecMarker == Init /\ [][NextMarker]_vars

----------------------------------------------------------------------------
(* The dedup set at its cap: a long stream of distinct top-level messages *)

\* The k-th message of the stream.  Timestamps fall, so that the order of insertion
\* is not the order of the values.
DedupMessage(k) ==
  [kind |-> "message", ts |-> MaxDedupInserts + 1 - k, thread_ts |-> NoTs, user |-> "U1",
   text |-> PlainText, files |-> FALSE, attachments |-> FALSE, channel |-> MonitoredChannel, bot_id |-> FALSE,
   subtype |-> ""]

\* Slack delivers the next message of the stream once the previous one has been
\* drained, or the last one again; the agent is down, so every verdict is "error".
NextDedup ==
  \/ /\ nextId <= MaxDedupInserts
     /\ ~isProcessing
     /\ OnMessage(DedupMessage(nextId))
  \/ /\ nextId > 1
     /\ lastOutcome = "pushed"
     /\ OnMessage(DedupMessage(nextId - 1))
  \/ Drain
  \/ \E h \in inflight :
       ReturnNew(h, [action |-> "error", ticketId |-> "", ticketIdentifier |-> ""])

SpecDedup == Init /\ [][NextDedup]_vars

----------------------------------------------------------------------------
(* The maps across the 24-hour mark: one thread, its reply, its edit, its delete *)

TTLMessages ==
  LET m == [kind |-> "message", ts |-> 1, thread_ts |-> NoTs, user |-> "U1",
            text |-> PlainText, files |-> FALSE, attachments |-> FALSE,
            channel |-> MonitoredChannel, bot_id |-> FALSE, subtype |-> ""] IN
  {m,
   [m EXCEPT !.ts = 2, !.thread_ts = 1],
   [m EXCEPT !.ts = 2, !.thread_ts = 1, !.text = <<BotMention, "close">>]}

TTLEdits ==
  {[kind |-> "message_changed", subtype |-> "message_changed", hasMessage |-> TRUE,
    hasPrevious |-> TRUE, ts |-> 1, user |-> "U1", text |-> <<"login", "works">>,
    previousText |-> PlainText, channel |-> MonitoredChannel, bot_id |-> FALSE]}

TTLDeletes ==
  {[kind |-> "message_deleted", subtype |-> "message_deleted", deleted_ts |-> 1,
    thread_ts |-> NoTs, channel |-> MonitoredChannel]}

TTLNewResults ==
  {[action |-> "created", ticketId |-> "uuid-1", ticketIdentifier |-> "ENG-42"],
   [action |-> "deferred", ticketId |-> "", ticketIdentifier |-> ""]}

TTLOrphanResults ==
  {[action |-> "skipped", ticketId |-> "", ticketIdentifier |-> ""]}

TTLDeferredResults ==
  {[action |-> "no_action", ticketId |-> "", ticketIdentifier |-> ""]}

NextTTL ==
  \/ Delivers(MaxTTLEvents, TTLMessages, TTLEdits, TTLDeletes)
  \/ Drain
  \/ Completes(TTLNewResults, TTLOrphanResults, TTLDeferredResults, QueueHistories)
  \/ Ticks

SpecTTL == Init /\ [][NextTTL]_vars

----------------------------------------------------------------------------
(* Edits of one triaged message, over texts that differ in their whitespace *)

EditSpecTexts ==
  {<<"a", "b">>,
   <<"a", " ", "b">>,
   <<"a", " ", "b", " ", " ">>,
   <<"a", " ", " ", "b">>,
   <<"a", "\t", "b">>,
   <<"\n", "a", " ", "b">>,
   <<"a", " ", "c">>,
   <<" ">>,
   <<>>}

EditSpecMessage ==
  [kind |-> "message", ts |-> 1, thread_ts |-> NoTs, user |-> "U1", text |-> <<"a", " ", "b">>,
   files |-> FALSE, attachments |-> FALSE, channel |-> MonitoredChannel, bot_id |-> FALSE, subtype |-> ""]

\* message_changed events of that message, each with a text other than the previous one
EditSpecEvents ==
  {[kind |-> "message_changed", subtype |-> "message_changed", hasMessage |-> TRUE,
    hasPrevious |-> TRUE, ts |-> 1, user |-> "U1", text |-> p[2], previousText |-> p[1],
    channel |-> MonitoredChannel, bot_id |-> FALSE] :
     p \in {q \in EditSpecTexts \X EditSpecTexts : q[1] # q[2]}}

EditSpecResults ==
  {[action |-> "created", ticketId |-> "uuid-1", ticketIdentifier |-> "ENG-42"],
   [action |-> "duplicate", ticketId |-> "", ticketIdentifier |-> "ENG-42"]}

NextEdit ==
  \/ nextId <= MaxEditEvents /\ OnMessage(EditSpecMessage)
  \/ nextId <= MaxEditEvents /\ \E ev \in EditSpecEvents : OnMessageChanged(ev)
  \/ Drain
  \/ \E h \in inflight : \E result \in EditSpecResults : ReturnNew(h, result)
  \/ \E h \in inflight : ReturnEdited(h)

SpecEdit == Init /\ [][NextEdit]_vars

----------------------------------------------------------------------------
(* Deletes of triaged and untriaged messages, with and without a thread key *)

DeleteSpecMessages ==
  {[kind |-> "message", ts |-> t, thread_ts |-> NoTs, user |-> "U1", text |-> PlainText,
    files |-> FALSE, attachments |-> FALSE, channel |-> MonitoredChannel, bot_id |-> FALSE, subtype |-> ""] :
     t \in Timestamps}

\* previous_message.thread_ts is absent for a message without replies and the
\* message's own timestamp for the parent of a thread
DeleteSpecEvents ==
  {[kind |-> "message_deleted", subtype |-> "message_deleted", deleted_ts |-> p[1],
    thread_ts |-> p[2], channel |-> MonitoredChannel] :
     p \in {q \in Timestamps \X ({NoTs} \cup Timestamps) : q[2] \in {NoTs, q[1]}}}

DeleteSpecResults ==
  {[action |-> "created", ticketId |-> "uuid-1", ticketIdentifier |-> "ENG-42"],
   [action |-> "skipped", ticketId |-> "", ticketIdentifier |-> ""]}

NextDelete ==
  \/ nextId <= MaxDeleteEvents /\ \E msg \in DeleteSpecMessages : OnMessage(msg)
  \/ nextId <= MaxDeleteEvents /\ \E ev \in DeleteSpecEvents : OnMessageDeleted(ev)
  \/ Drain
  \/ \E h \in inflight : \E result \in DeleteSpecResults : ReturnNew(h, result)
  \/ \E h \in inflight : ReturnDeleted(h)

SpecDelete == Init /\ [][NextDelete]_vars

----------------------------------------------------------------------------
(* Follow-ups in a deferred thread, with the clock running past the TTL *)

DeferredSpecMessages ==
  LET m == [kind |-> "message", ts |-> 1, thread_ts |-> NoTs, user |-> "U1",
            text |-> PlainText, files |-> FALSE, attachments |-> FALSE,
            channel |-> MonitoredChannel, bot_id |-> FALSE, subtype |-> ""] IN
  {m, [m EXCEPT !.ts = 2], [m EXCEPT !.ts = 2, !.thread_ts = 1, !.user = "U2"]}

DeferredSpecNewResults ==
  {[action |-> "deferred", ticketId |-> "", ticketIdentifier |-> ""],
   [action |-> "skipped", ticketId |-> "", ticketIdentifier |-> ""]}

NextDeferred ==
  \/ nextId <= MaxDeferredEvents /\ \E msg \in DeferredSpecMessages : OnMessage(msg)
  \/ Drain
  \/ \E h \in inflight : HandlerThrows(h)
  \/ \E h \in inflight : \E result \in DeferredSpecNewResults : ReturnNew(h, result)
  \/ \E h \in inflight : \E result \in QueueOrphanResults : ReturnOrphanThread(h, result)
  \/ \E h \in inflight : \E result \in DeferredResults : ReturnDeferredFollowup(h, result)
  \/ Ticks

SpecDeferred == Init /\ [][NextDeferred]_vars

----------------------------------------------------------------------------
(* The listeners' early returns: events of every author, channel, subtype and content *)

MaxIngestEvents == 3

\* message events of one timestamp: from a bot or not, of the monitored channel,
\* another or none, with no subtype or one of four, with no content, a text, a file
\* or an attachment
IngestMessages ==
  LET m == [kind |-> "message", ts |-> 1, thread_ts |-> NoTs, user |-> "U1",
            text |-> <<>>, files |-> FALSE, attachments |-> FALSE,
            channel |-> MonitoredChannel, bot_id |-> FALSE, subtype |-> ""] IN
  {[c EXCEPT !.bot_id = b, !.channel = ch, !.subtype = st] :
     c \in {m, [m EXCEPT !.text = PlainText], [m EXCEPT !.files = TRUE],
            [m EXCEPT !.attachments = TRUE]},
     b \in BOOLEAN,
     ch \in {MonitoredChannel, "C_OTHER", ""},
     st \in {"", "file_share", "bot_message", "thread_broadcast", "channel_join"}}

\* message_changed events of that message: by a bot or not, in either channel, with
\* a new text or none
IngestEdits ==
  {[kind |-> "message_changed", subtype |-> "message_changed", hasMessage |-> TRUE,
    hasPrevious |-> TRUE, ts |-> 1, user |-> "U1", text |-> x,
    previousText |-> PlainText, channel |-> ch, bot_id |-> b] :
     x \in {<<"login", "works">>, <<>>}, ch \in {MonitoredChannel, "C_OTHER"},
     b \in BOOLEAN}

IngestDeletes ==
  {[kind |-> "message_deleted", subtype |-> "message_deleted", deleted_ts |-> 1,
    thread_ts |-> NoTs, channel |-> ch] : ch \in {MonitoredChannel, "C_OTHER"}}

NextIngest ==
  \/ nextId <= MaxIngestEvents /\ \E msg \in IngestMessages : OnMessage(msg)
  \/ nextId <= MaxIngestEvents /\ \E ev \in IngestEdits : OnMessageChanged(ev)
  \/ nextId <= MaxIngestEvents /\ \E ev \in IngestDeletes : OnMessageDeleted(ev)
  \/ Drain
  \/ \E h \in inflight : \E result \in RestartResults : ReturnNew(h, result)
  \/ \E h \in inflight : ReturnEdited(h)
  \/ \E h \in inflight : ReturnDeleted(h)

SpecIngest == Init /\ [][NextIngest]_vars

----------------------------------------------------------------------------
(* Edits and the delete of a message whose triage is queued or in flight *)

MaxRaceEvents == 3

\* message_changed events of message 1: a new text, and the old text with blanks added
RaceEdits ==
  {e \in EditEvents : e.ts = 1 /\ ~e.bot_id}

RaceDeletes ==
  {e \in DeleteEvents : e.deleted_ts = 1 /\ e.thread_ts = NoTs
                        /\ e.channel = MonitoredChannel}

\* Two top-level messages, the edits of the first and its delete.  Slack sends no
\* event for a message after its message_deleted event: the delete comes last.
NextRace ==
  \/ nextId <= MaxRaceEvents /\ \E msg \in MarkerMessages : OnMessage(msg)
  \/ nextId <= MaxRaceEvents /\ \E ev \in RaceEdits : OnMessageChanged(ev)
  \/ nextId = MaxRaceEvents /\ \E ev \in RaceDeletes : OnMessageDeleted(ev)
  \/ Drain
  \/ \E h \in inflight : \E result \in DeleteSpecResults : ReturnNew(h, result)
  \/ \E h \in inflight : ReturnEdited(h)
  \/ \E h \in inflight : ReturnDeleted(h)

SpecRace == Init /\ [][NextRace]_vars

----------------------------------------------------------------------------
(* One triaged message: its deletes with and without a thread key, its edits, a reply *)

MaxKeylessEvents == 3

KeylessMessages ==
  {m \in AcceptedMessages :
     /\ m.text = PlainText
     /\ \/ m.ts = 1 /\ m.thread_ts = NoTs /\ m.user = "U1"
        \/ m.ts = 2 /\ m.thread_ts = 1 /\ m.user = "U2"}

\* previous_message.thread_ts is absent for a message without replies
KeylessDeletes ==
  {ev \in DeleteSpecEvents : ev.deleted_ts = 1}

NextKeyless ==
  \/ Delivers(MaxKeylessEvents, KeylessMessages, RaceEdits, KeylessDeletes)
  \/ Drain
  \/ \E h \in inflight : HandlerThrows(h)
  \/ \E h \in inflight : \E result \in RestartResults : ReturnNew(h, result)
  \/ \E h \in inflight : \E messages \in QueueHistories : ReturnThreadReply(h, messages)
  \/ \E h \in inflight : \E result \in QueueOrphanResults : ReturnOrphanThread(h, result)
  \/ \E h \in inflight : ReturnEdited(h)
  \/ \E h \in inflight : ReturnDeleted(h)

SpecKeyless == Init /\ [][NextKeyless]_vars

----------------------------------------------------------------------------
(* Claims about the queue *)

\* C1: at most one handler invocation is in flight, and while one is in flight no
\* activation of processQueue stands at its loop head to start another item,
\* whatever events arrive during the handler's awaits.
SingleFlight ==
  /\ Cardinality(inflight) <= 1
  /\ inflight # {} => looping = 0

\* C1 witness: a handler is in flight and two later events were queued behind it
SingleFlightWitness ==
  /\ Cardinality(inflight) = 1
  /\ Len(messageQueue) >= 2
  /\ isProcessing

\* C2: handlers start in the order of the pushes (ids are given in push order), and
\* every handler but the last started one has returned or thrown.
FifoOrder ==
  /\ \A k \in 1..Len(started) : started[k] = k
  /\ \A k \in 1..(Len(started) - 1) : started[k] \in Range(finished)

\* C2 witness: the third pushed item is being handled while a fourth, pushed during
\* the drain, waits
FifoOrderWitness ==
  /\ Len(started) = 3
  /\ inflight # {}
  /\ Len(messageQueue) >= 1
  /\ nDrains = 1

\* C3: after the handler of item i threw, the next pushed item is still started,
\* and the latch is set only while an activation of processQueue is alive.
ThrowDoesNotStall ==
  /\ \A i \in 1..MaxQueueEvents :
       (i \in threw /\ nextId > i + 1) ~> (i + 1 \in Range(started))
  /\ [](isProcessing => looping + Cardinality(inflight) >= 1)

\* C3 witness: item 1 threw while item 2 was queued behind it, and item 2 was started
\* by the same activation
ThrowDoesNotStallWitness ==
  /\ 1 \in threw
  /\ 2 \in Range(started)
  /\ nDrains = 1

\* C4: every pushed item is eventually started, none twice; this includes an item
\* pushed after an earlier drain has ended.
EveryItemDispatchedOnce ==
  /\ \A i \in 1..MaxQueueEvents : (nextId > i) ~> (i \in Range(started))
  /\ [](\A j, k \in 1..Len(started) : j # k => started[j] # started[k])

\* C4 witness: a second activation passed the latch (the first drain had ended) and
\* the item it was started for has been handled
EveryItemDispatchedOnceWitness ==
  /\ nDrains = 2
  /\ Len(started) = 2
  /\ Len(finished) = 2
  /\ ~isProcessing

----------------------------------------------------------------------------
(* Claims about classification and the writes of the "new" handler *)

\* The item a listener call has just pushed
Pushed == messageQueue'[Len(messageQueue')]

PushedOne == Len(messageQueue') = Len(messageQueue) + 1 /\ nextId' = nextId + 1

IsReply(msg) == msg.thread_ts # NoTs /\ msg.thread_ts # msg.ts

\* The accepted messages, by the branch of the listener that is theirs
Mentions == {m \in MessageEvents : MessageAccepted(m) /\ Includes(m.text, BotMention)}

Replies ==
  {m \in MessageEvents : MessageAccepted(m) /\ ~Includes(m.text, BotMention) /\ IsReply(m)}

TopLevels ==
  {m \in MessageEvents : MessageAccepted(m) /\ ~Includes(m.text, BotMention) /\ ~IsReply(m)}

\* C5: an accepted reply without the mention is pushed as deferred_followup (with
\* the entry's originalContext) when the ThreadOutcome under thread_ts is deferred,
\* as thread_reply (with the entry's ticketId, ticketIdentifier, isDuplicate and
\* isSameReporter = reporter is the author) when it is not deferred, and as
\* orphan_thread when there is none.
ReplyClassification ==
  [][\A msg \in Replies :
       OnMessage(msg)
       => /\ PushedOne
          /\ Pushed.threadTs = msg.thread_ts
          /\ Pushed.messageTs = msg.ts
          /\ IF msg.thread_ts \in DOMAIN threadTicketMap
               THEN LET entry == threadTicketMap[msg.thread_ts] IN
                    IF entry.isDeferred
                      THEN /\ Pushed.type = "deferred_followup"
                           /\ Pushed.originalContext = entry.originalContext
                      ELSE /\ Pushed.type = "thread_reply"
                           /\ Pushed.ticketId = entry.ticketId
                           /\ Pushed.ticketIdentifier = entry.ticketIdentifier
                           /\ Pushed.isDuplicate = entry.isDuplicate
                           /\ Pushed.isSameReporter = (entry.originalReporterId = msg.user)
               ELSE Pushed.type = "orphan_thread"]_vars

\* C5 witness: a reply to a deferred thread waits in the queue with the deferred
\* message's text as its context
ReplyClassificationWitness ==
  \E i \in 1..Len(messageQueue) :
    /\ messageQueue[i].type = "deferred_followup"
    /\ messageQueue[i].originalContext = PlainText
    /\ messageQueue[i].threadTs \in DOMAIN threadTicketMap
    /\ threadTicketMap[messageQueue[i].threadTs].isDeferred

\* C6: every accepted message with the mention is pushed as direct_command, be it
\* top-level, a reply in any thread or a timestamp in the dedup set; ticketContext
\* is the ticketIdentifier of the ThreadOutcome under thread_ts, null when there is
\* no thread_ts, no entry or an empty identifier.
MentionFirst ==
  [][\A msg \in Mentions :
       OnMessage(msg)
       => /\ PushedOne
          /\ Pushed.type = "direct_command"
          /\ Pushed.messageTs = msg.ts
          /\ Pushed.ticketContext =
               IF msg.thread_ts = NoTs THEN Null
               ELSE IF msg.thread_ts \notin DOMAIN threadTicketMap THEN Null
               ELSE IF threadTicketMap[msg.thread_ts].ticketIdentifier = "" THEN Null
               ELSE threadTicketMap[msg.thread_ts].ticketIdentifier]_vars

\* C6 witness: a mention in a tracked thread, of a timestamp the dedup set holds,
\* waits as a direct command with the thread's ticket as context
MentionFirstWitness ==
  \E i \in 1..Len(messageQueue) :
    /\ messageQueue[i].type = "direct_command"
    /\ messageQueue[i].ticketContext = "ENG-42"
    /\ messageQueue[i].messageTs \in Range(processedMessages)

\* C7: an accepted top-level message without the mention pushes nothing when its
\* timestamp is in the dedup set; otherwise the timestamp enters the set and
\* exactly one "new" item is pushed.
DedupTopLevel ==
  [][\A msg \in TopLevels :
       OnMessage(msg)
       => IF msg.ts \in Range(processedMessages)
            THEN UNCHANGED <<messageQueue, nextId, processedMessages>>
            ELSE /\ msg.ts \in Range(processedMessages')
                 /\ PushedOne
                 /\ Pushed.type = "new"
                 /\ Pushed.messageTs = msg.ts
                 /\ Pushed.text = msg.text]_vars

\* C7 witness: a second delivery of a top-level timestamp has just been dropped, and
\* one "new" item was pushed in all
DedupTopLevelWitness ==
  /\ lastOutcome = "deduped"
  /\ processedMessages = <<1>>
  /\ nextId = 2

\* C10: the "new" handler writes, under the message timestamp, a non-deferred
\* ThreadOutcome with isDuplicate = (action = duplicate) for created / duplicate
\* with a ticket reference, a deferred one with empty ticket fields and the message
\* text as context for deferred, and leaves threadTicketMap alone otherwise.
NewWritesThreadOutcome ==
  [][\A h \in inflight : \A result \in NewResults :
       ReturnNew(h, result)
       => LET ts == h.item.messageTs IN
          IF result.action \in {"created", "duplicate"}
               /\ (result.ticketId # "" \/ result.ticketIdentifier # "")
            THEN /\ ts \in DOMAIN threadTicketMap'
                 /\ ~threadTicketMap'[ts].isDeferred
                 /\ threadTicketMap'[ts].isDuplicate = (result.action = "duplicate")
          ELSE IF result.action = "deferred"
            THEN /\ ts \in DOMAIN threadTicketMap'
                 /\ threadTicketMap'[ts].isDeferred
                 /\ threadTicketMap'[ts].ticketId = ""
                 /\ threadTicketMap'[ts].ticketIdentifier = ""
                 /\ threadTicketMap'[ts].originalContext = h.item.text
          ELSE threadTicketMap' = threadTicketMap]_vars

\* C10 witness: a message was handled with a verdict that names no ticket and left
\* no ThreadOutcome, while another one was handled as a duplicate and left one
NewWritesThreadOutcomeWitness ==
  \E t1, t2 \in Timestamps :
    /\ t1 \in DOMAIN messageTicketMap /\ t1 \notin DOMAIN threadTicketMap
    /\ messageTicketMap[t1].action = "created"
    /\ t2 \in DOMAIN threadTicketMap /\ threadTicketMap[t2].isDuplicate
    /\ t2 \in DOMAIN messageTicketMap
    /\ messageTicketMap[t2].action = "duplicate"

----------------------------------------------------------------------------
(* Claims about the dedup set and the TTL *)

\* C8: the dedup set never holds more than 1000 timestamps, it always holds the most
\* recently inserted ones in insertion order, and after 1001 distinct insertions it
\* holds exactly 501.
DedupCapHolds ==
  LET inserted == nextId - 1
      size == Len(processedMessages) IN
  /\ size <= DedupCap
  /\ size <= inserted
  /\ \A i \in 1..size : processedMessages[i] = DedupMessage(inserted - size + i).ts
  /\ inserted = DedupCap + 1 => size = DedupCap + 1 - DedupTrim

\* C8 witness: the 1001st distinct timestamp has been inserted and the trim has run
DedupCapHoldsWitness ==
  /\ nextId - 1 = 1001
  /\ Len(processedMessages) = 501
  /\ processedMessages[1] = DedupMessage(501).ts
  /\ processedMessages[501] = DedupMessage(1001).ts

\* An entry whose age at call time is past the TTL
Expired(entry) == now - entry.createdAt > maxAge

\* C9: a lookup never returns an entry older than 24 hours.  A reply whose thread's
\* ThreadOutcome is older is classified as a reply to an unknown thread, and an edit
\* or a delete whose MessageOutcome is older is handled as one of an untracked
\* message, without a call to the agent.
LookupHonoursTTL ==
  [][/\ \A msg \in TTLMessages :
          (/\ OnMessage(msg)
           /\ PushedOne
           /\ IsReply(msg) /\ ~IsBotMentioned(msg)
           /\ MapHas(threadTicketMap, msg.thread_ts)
           /\ Expired(threadTicketMap[msg.thread_ts]))
          => Pushed.type = "orphan_thread"
     /\ (/\ LoopStep
         /\ Head(messageQueue).type \in {"message_edited", "message_deleted"}
         /\ MapHas(messageTicketMap, Head(messageQueue).messageTs)
         /\ Expired(messageTicketMap[Head(messageQueue).messageTs]))
        => inflight' = inflight]_vars

----------------------------------------------------------------------------
(* Claims about the handlers *)

\* C11: whenever the handler of a "new" item ends, a MessageOutcome written at that
\* moment stands under the item's message timestamp, whatever the verdict (an
\* internal failure of the triager is the verdict "error"); and every MessageOutcome
\* has wasTriaged exactly when its action is created or duplicate.
NewAlwaysWritesMessageOutcome ==
  /\ [](\A ts \in DOMAIN messageTicketMap :
          messageTicketMap[ts].wasTriaged
            = (messageTicketMap[ts].action \in {"created", "duplicate"}))
  /\ [][\A h \in inflight :
          (h.item.type = "new" /\ h \notin inflight')
          => /\ h.item.messageTs \in DOMAIN messageTicketMap'
             /\ messageTicketMap'[h.item.messageTs].createdAt = now
             /\ messageTicketMap'[h.item.messageTs].action
                  \in {"created", "duplicate", "skipped", "deferred", "error"}
             /\ h.item.id \notin threw']_vars

\* C11 witness: the handlers of two "new" items have ended, one on the verdict
\* "error" and one on "created"; both left a MessageOutcome
NewAlwaysWritesMessageOutcomeWitness ==
  /\ Len(finished) = 2
  /\ \E t1, t2 \in Timestamps :
       /\ t1 \in DOMAIN messageTicketMap /\ t2 \in DOMAIN messageTicketMap
       /\ messageTicketMap[t1].action = "error" /\ ~messageTicketMap[t1].wasTriaged
       /\ messageTicketMap[t2].action = "created" /\ messageTicketMap[t2].wasTriaged

\* The item whose handler the drain loop is about to start
NextItem == Head(messageQueue)

\* The MessageOutcome of item's message exists and says it was triaged
Triaged(item) ==
  /\ MapHas(messageTicketMap, item.messageTs)
  /\ messageTicketMap[item.messageTs].wasTriaged

\* C12: the handler of a message_edited or message_deleted item calls
\* handleMessageEdit / handleMessageDelete only when messageTicketMap holds an entry
\* with wasTriaged for the message; when the entry is absent or not triaged the
\* handler returns at once, without a call and with both maps as they were.
EditDeleteOnlyWhenTriaged ==
  [][(LoopStep /\ NextItem.type \in {"message_edited", "message_deleted"})
     => /\ lastCall'.fn \in {"handleMessageEdit", "handleMessageDelete"}
             => Triaged(NextItem)
        /\ ~Triaged(NextItem)
             => /\ lastCall' = [NoCall EXCEPT !.id = NextItem.id]
                /\ inflight' = inflight
                /\ NextItem.id \in Range(finished')
                /\ UNCHANGED <<threadTicketMap, messageTicketMap>>]_vars

\* C12 witness: the message of item 1 was skipped by the triager; item 2, its edit or
\* its delete (the only handlers that return without a call and without a throw),
\* has returned with no call made and the MessageOutcome still there
EditDeleteOnlyWhenTriagedWitness ==
  /\ 1 \in DOMAIN messageTicketMap
  /\ messageTicketMap[1].action = "skipped" /\ ~messageTicketMap[1].wasTriaged
  /\ finished = <<1, 2>>
  /\ threw = {}
  /\ lastCall = [NoCall EXCEPT !.id = 2]

\* The words of a text: its maximal runs of characters other than blank, tab and
\* newline.  Two texts are equal after trimming and collapsing every run of
\* whitespace to one space exactly when they have the same words.
Blanks == {" ", "\t", "\n"}

RECURSIVE Words(_)
Words(text) ==
  LET from == IF \E i \in 1..Len(text) : text[i] \notin Blanks
                THEN CHOOSE i \in 1..Len(text) :
                       text[i] \notin Blanks /\ \A j \in 1..(i - 1) : text[j] \in Blanks
                ELSE 0 IN
  IF from = 0 THEN <<>>
  ELSE LET to == CHOOSE k \in from..Len(text) :
                   /\ \A j \in from..k : text[j] \notin Blanks
                   /\ k = Len(text) \/ text[k + 1] \in Blanks IN
       <<SubSeq(text, from, to)>> \o Words(SubSeq(text, to + 1, Len(text)))

\* C13: for an edit of a tracked, triaged message, handleMessageEdit is called exactly
\* when the previous and the new text differ after normalization (they do not have
\* the same words); the call carries both texts as they came and the recorded
\* action and ticket; an edit of whitespace alone returns without a call.
EditCallIffTextChanged ==
  [][(LoopStep /\ NextItem.type = "message_edited" /\ Triaged(NextItem))
     => IF Words(NextItem.previousText) # Words(NextItem.text)
          THEN /\ lastCall'.id = NextItem.id
               /\ lastCall'.fn = "handleMessageEdit"
               /\ lastCall'.originalText = NextItem.previousText
               /\ lastCall'.editedText = NextItem.text
               /\ lastCall'.action = messageTicketMap[NextItem.messageTs].action
               /\ lastCall'.ticketId = messageTicketMap[NextItem.messageTs].ticketId
               /\ lastCall'.ticketIdentifier
                    = messageTicketMap[NextItem.messageTs].ticketIdentifier
               /\ \E h \in inflight' : h.item = NextItem
          ELSE /\ lastCall' = [NoCall EXCEPT !.id = NextItem.id]
               /\ inflight' = inflight]_vars

\* C13 witness: the message of item 1 was triaged; item 2, an edit that changed the
\* text in its whitespace alone (every edit here changes the text), has returned
\* without a call
EditCallIffTextChangedWitness ==
  /\ 1 \in DOMAIN messageTicketMap /\ messageTicketMap[1].wasTriaged
  /\ finished = <<1, 2>>
  /\ lastCall = [NoCall EXCEPT !.id = 2]

\* C14: the delete handler of a triaged message first calls handleMessageDelete with
\* the ticketId and ticketIdentifier of the MessageOutcome, both maps untouched; while
\* the call is in flight the MessageOutcome stays; when the call returns the
\* MessageOutcome is removed, and with it the ThreadOutcome under the thread key when
\* the event had one.
DeleteCallsThenRemoves ==
  /\ [][(LoopStep /\ NextItem.type = "message_deleted" /\ Triaged(NextItem))
        => /\ lastCall'.id = NextItem.id
           /\ lastCall'.fn = "handleMessageDelete"
           /\ lastCall'.ticketId = messageTicketMap[NextItem.messageTs].ticketId
           /\ lastCall'.ticketIdentifier
                = messageTicketMap[NextItem.messageTs].ticketIdentifier
           /\ \E h \in inflight' : h.item = NextItem
           /\ UNCHANGED <<threadTicketMap, messageTicketMap>>]_vars
  /\ [](\A h \in inflight :
          h.item.type = "message_deleted"
          => /\ MapHas(messageTicketMap, h.item.messageTs)
             /\ h.item.threadTs # NoTs /\ h.item.threadTs = h.item.messageTs
                  => MapHas(threadTicketMap, h.item.threadTs))
  /\ [][\A h \in inflight :
          (h.item.type = "message_deleted" /\ h \notin inflight')
          => /\ ~MapHas(messageTicketMap', h.item.messageTs)
             /\ IF h.item.threadTs # NoTs
                  THEN /\ ~MapHas(threadTicketMap', h.item.threadTs)
                       /\ \A k \in DOMAIN threadTicketMap \ {h.item.threadTs} :
                            MapHas(threadTicketMap', k)
                  ELSE threadTicketMap' = threadTicketMap]_vars

\* C14 witness: the delete of a triaged thread parent has been handled: the call named
\* ENG-42 and has returned, and neither map holds the timestamp any more, while the
\* dedup set still does
DeleteCallsThenRemovesWitness ==
  /\ lastCall.fn = "handleMessageDelete"
  /\ lastCall.ticketId = "uuid-1" /\ lastCall.ticketIdentifier = "ENG-42"
  /\ lastCall.id \in Range(finished)
  /\ processedMessages = <<1>>
  /\ DOMAIN messageTicketMap = {}
  /\ DOMAIN threadTicketMap = {}

\* C15: when the deferred follow-up handler returns on the verdict created with a
\* ticketId, the ThreadOutcome under the thread key, if there is one at that moment,
\* gets that ticketId, a non-empty ticketIdentifier and isDeferred = false, and keeps
\* its other fields; if there is none, none is created.  On every other verdict
\* threadTicketMap is unchanged.  messageTicketMap is never touched.
DeferredUpgradesInPlace ==
  [][\A h \in inflight : \A result \in DeferredResults :
       ReturnDeferredFollowup(h, result)
       => LET k == h.item.threadTs IN
          /\ messageTicketMap' = messageTicketMap
          /\ IF result.action = "created" /\ result.ticketId # ""
                  /\ k \in DOMAIN threadTicketMap
               THEN /\ DOMAIN threadTicketMap' = DOMAIN threadTicketMap
                    /\ \A j \in DOMAIN threadTicketMap \ {k} :
                         threadTicketMap'[j] = threadTicketMap[j]
                    /\ threadTicketMap'[k].ticketId = result.ticketId
                    /\ threadTicketMap'[k].ticketIdentifier # ""
                    /\ threadTicketMap'[k].ticketIdentifier
                         \in {result.ticketIdentifier, result.ticketId}
                    /\ ~threadTicketMap'[k].isDeferred
                    /\ threadTicketMap'[k].createdAt = threadTicketMap[k].createdAt
                    /\ threadTicketMap'[k].originalContext
                         = threadTicketMap[k].originalContext
                    /\ threadTicketMap'[k].originalReporterId
                         = threadTicketMap[k].originalReporterId
                    /\ threadTicketMap'[k].isDuplicate = threadTicketMap[k].isDuplicate
               ELSE threadTicketMap' = threadTicketMap]_vars

\* C15 witness: the ThreadOutcome of thread 1 was written deferred (it still has the
\* message's text as context and its author as reporter) and now names a ticket, with
\* the ticketId standing in for the identifier the verdict did not give
DeferredUpgradesInPlaceWitness ==
  /\ 1 \in DOMAIN threadTicketMap
  /\ ~threadTicketMap[1].isDeferred
  /\ threadTicketMap[1].originalContext = PlainText
  /\ threadTicketMap[1].originalReporterId = "U1"
  /\ threadTicketMap[1].ticketId = "uuid-1"
  /\ threadTicketMap[1].ticketIdentifier = "uuid-1"
  /\ lastCall.fn = "handleDeferredFollowup"

\* C16: when the orphan-thread handler returns, a ThreadOutcome is written under the
\* thread key exactly for the verdicts created and updated that carry a ticketId; it
\* is not deferred and is a duplicate exactly for updated.  For skipped, error and a
\* verdict without ticketId threadTicketMap is unchanged.  messageTicketMap is never
\* touched.
OrphanWritesThreadOutcome ==
  [][\A h \in inflight : \A result \in OrphanResults :
       ReturnOrphanThread(h, result)
       => LET k == h.item.threadTs IN
          /\ messageTicketMap' = messageTicketMap
          /\ IF result.action \in {"created", "updated"} /\ result.ticketId # ""
               THEN /\ DOMAIN threadTicketMap' = DOMAIN threadTicketMap \cup {k}
                    /\ \A j \in DOMAIN threadTicketMap \ {k} :
                         threadTicketMap'[j] = threadTicketMap[j]
                    /\ threadTicketMap'[k].ticketId = result.ticketId
                    /\ threadTicketMap'[k].ticketIdentifier # ""
                    /\ ~threadTicketMap'[k].isDeferred
                    /\ threadTicketMap'[k].isDuplicate = (result.action = "updated")
                    /\ threadTicketMap'[k].createdAt = now
                    /\ threadTicketMap'[k].originalReporterId = h.item.userId
               ELSE threadTicketMap' = threadTicketMap]_vars

\* C16 witness: the only item handled was a reply in thread 1, unknown until then; the
\* verdict was updated, and the thread is now tracked as a duplicate, with no
\* MessageOutcome
OrphanWritesThreadOutcomeWitness ==
  /\ finished = <<1>>
  /\ lastCall = [NoCall EXCEPT !.id = 1, !.fn = "triageOrphanThreadReply"]
  /\ DOMAIN threadTicketMap = {1}
  /\ threadTicketMap[1].isDuplicate /\ ~threadTicketMap[1].isDeferred
  /\ threadTicketMap[1].ticketId = "uuid-1"
  /\ DOMAIN messageTicketMap = {}

\* C17: no step of the handler of a thread_reply or direct_command item, from its start
\* to its return or throw, changes threadTicketMap, messageTicketMap or the dedup
\* set, whatever the thread holds and whatever the triager does.
ReplyAndCommandWriteNothing ==
  /\ [][(LoopStep /\ NextItem.type \in {"thread_reply", "direct_command"})
        => UNCHANGED <<threadTicketMap, messageTicketMap, processedMessages>>]_vars
  /\ [][\A h \in inflight :
          (h.item.type \in {"thread_reply", "direct_command"} /\ h \notin inflight')
          => UNCHANGED <<threadTicketMap, messageTicketMap, processedMessages>>]_vars

\* C17 witness: a reply in tracked thread 1 was handled; the thread's history named
\* another ticket, which was forwarded, and the ThreadOutcome still names ENG-42
ReplyAndCommandWriteNothingWitness ==
  /\ finished = <<1, 2>>
  /\ lastCall.id = 2
  /\ lastCall.fn = "handleThreadReply"
  /\ lastCall.ticketIdentifier = "ENG-7"
  /\ 1 \in DOMAIN threadTicketMap
  /\ threadTicketMap[1].ticketIdentifier = "ENG-42"
  /\ processedMessages = <<1>>

\* C18: the ticket forwarded to handleThreadReply is the one found in the thread's
\* history when its identifier differs from the cached one; when the scan finds no
\* link, or finds the cached ticket, the cached ticketId and ticketIdentifier are
\* forwarded unchanged.
ThreadTicketRederived ==
  [][\A h \in inflight : \A messages \in ThreadHistories :
       ReturnThreadReply(h, messages)
       => LET found == extractTicketFromThread(messages) IN
          IF found # Null /\ found # h.item.ticketIdentifier
            THEN /\ lastCall'.ticketIdentifier = found
                 /\ lastCall'.ticketId = found
            ELSE /\ lastCall'.ticketIdentifier = h.item.ticketIdentifier
                 /\ lastCall'.ticketId = h.item.ticketId]_vars

\* The pages of the history as one list, newest message first
RECURSIVE Flat(_)
Flat(pages) == IF pages = <<>> THEN <<>> ELSE Head(pages) \o Flat(Tail(pages))

\* The place of the newest message that carries the marker, 0 when there is none
MarkerAt(messages) ==
  LET marked == {i \in 1..Len(messages) : "robot_face" \in messages[i].reactions} IN
  IF marked = {} THEN 0 ELSE CHOOSE i \in marked : \A j \in marked : i <= j

\* C19: when the scan of the history ends without having met a message that carries
\* robot_face, and at least one processable message was collected, recovery pushes
\* no item: the queue stays empty, no id is used and no drain is started.
RecoveryFirstRunGuard ==
  [][(/\ phase = "recover"
      /\ phase' # "recover"
      /\ MarkerAt(Flat(scan.pages)) = 0
      /\ \E i \in 1..Len(Flat(scan.pages)) : isProcessableMessage(Flat(scan.pages)[i]))
     => /\ messageQueue' = <<>>
        /\ nextId' = nextId
        /\ phase' = "live"
        /\ looping' = 0]_vars

\* C19 witness: two pages without a marker were scanned, processable messages of
\* both were collected, and recovery has ended with nothing queued
RecoveryFirstRunGuardWitness ==
  /\ phase = "live"
  /\ Len(scan.pages) = 2
  /\ MarkerAt(Flat(scan.pages)) = 0
  /\ Len(scan.pages[1]) = 2
  /\ isProcessableMessage(scan.pages[1][1])
  /\ Len(scan.pages[2]) = 2
  /\ isProcessableMessage(scan.pages[2][2])
  /\ messageQueue = <<>>
  /\ nextId = 1
  /\ started = <<>>

\* C20: when the scan meets the marker after n processable messages, over any number
\* of pages, no page is fetched after the one with the marker, and recovery pushes
\* exactly n items of type "new", one for each processable message newer than the
\* marker, the oldest first; the marked message, the messages older than it and
\* the messages that are not processable give no item.
RecoveryUpToMarker ==
  [][(/\ phase = "recover"
      /\ phase' # "recover"
      /\ MarkerAt(Flat(scan.pages)) # 0)
     => LET history == Flat(scan.pages)
            marker == MarkerAt(history)
            newer == {i \in 1..(marker - 1) : isProcessableMessage(history[i])}
            n == Cardinality(newer)
            queue == messageQueue' IN
        /\ marker > Len(history) - Len(scan.pages[Len(scan.pages)])
        /\ Len(queue) = n
        /\ \A k \in 1..n : queue[k].type = "new"
        /\ {queue[k].messageTs : k \in 1..n} = {history[i].ts : i \in newer}
        /\ \A k \in 1..(n - 1) : queue[k].messageTs < queue[k + 1].messageTs]_vars

\* C20 witness: the marker was met as the fourth message, on the second page, after
\* a message that is not processable; the two processable messages newer than it
\* are queued, the older one first, and nothing has been taken from the queue yet
RecoveryUpToMarkerWitness ==
  /\ phase = "drain"
  /\ started = <<>>
  /\ Len(scan.pages) = 2
  /\ MarkerAt(Flat(scan.pages)) = 4
  /\ ~isProcessableMessage(scan.pages[1][2])
  /\ Len(messageQueue) = 2
  /\ messageQueue[1].messageTs = Flat(scan.pages)[3].ts
  /\ messageQueue[2].messageTs = Flat(scan.pages)[1].ts

----------------------------------------------------------------------------
(* Claims about restart, the stores' writers, startup and shutdown *)

\* The timestamps of the messages recovery has enqueued
RecoveredTs ==
  IF phase # "recover" /\ scan.foundLastProcessed
    THEN {scan.missedMessages[k].ts : k \in 1..Len(scan.missedMessages)}
    ELSE {}

\* C21: recovery puts the timestamp of every message it enqueues into the dedup
\* set, so that a live event for a top-level message that recovery has enqueued is
\* dropped: it pushes no second item for that timestamp.
RecoveredNotRequeued ==
  [][\A msg \in RestartMessages :
       (OnMessage(msg) /\ msg.ts \in RecoveredTs)
       => /\ msg.ts \in Range(processedMessages)
          /\ messageQueue' = messageQueue
          /\ nextId' = nextId]_vars

\* C22: every item recovery produces is dispatched, and its handler has ended, before
\* any item of a live listener is dispatched: no listener runs before the program
\* goes live, and at the step to live the queue is empty, no handler is in flight
\* and every item pushed so far has been started and finished.
RecoveryDrainedBeforeLive ==
  /\ [](phase # "live" => lastOutcome = "none")
  /\ [][(phase # "live" /\ phase' = "live")
        => /\ messageQueue = <<>>
           /\ inflight = {}
           /\ Range(started) = 1..(nextId - 1)
           /\ Range(finished) = 1..(nextId - 1)]_vars

\* C22 witness: two recovered items were handled in the startup drain, then a live
\* event was pushed and dispatched in a second drain
RecoveryDrainedBeforeLiveWitness ==
  /\ phase = "live"
  /\ lastOutcome = "pushed"
  /\ started = <<1, 2, 3>>
  /\ nDrains = 2

\* C23: in every reachable state no ThreadOutcome is deferred and has a ticketId; a
\* deferred entry is born with an empty ticketId, and every step that gives a
\* deferred entry a ticketId leaves it not deferred.
DeferredHasNoTicket ==
  /\ [](\A k \in DOMAIN threadTicketMap :
          ~(threadTicketMap[k].isDeferred /\ threadTicketMap[k].ticketId # ""))
  /\ [][\A k \in DOMAIN threadTicketMap' :
          /\ (k \notin DOMAIN threadTicketMap /\ threadTicketMap'[k].isDeferred)
             => threadTicketMap'[k].ticketId = ""
          /\ (/\ k \in DOMAIN threadTicketMap
              /\ threadTicketMap[k].isDeferred
              /\ threadTicketMap'[k].ticketId # "")
             => ~threadTicketMap'[k].isDeferred]_vars

\* C23 witness: the thread of message 1 was deferred and a follow-up produced a
\* ticket: the entry keeps the deferred context, names the ticket and is no longer
\* deferred
DeferredHasNoTicketWitness ==
  /\ finished = <<1, 2>>
  /\ 1 \in DOMAIN threadTicketMap
  /\ threadTicketMap[1].originalContext # <<>>
  /\ threadTicketMap[1].ticketId # ""
  /\ ~threadTicketMap[1].isDeferred

\* The handlers whose await settles in this step
Leaving == inflight \ inflight'

\* C24: an existing ThreadOutcome changes only in the upgrade of a deferred
\* follow-up for its thread, and goes away only in a TTL sweep, when it is older
\* than 24 hours, or in the handling of a delete; no other handler overwrites it.
ThreadOutcomeWrittenOnce ==
  [][\A k \in DOMAIN threadTicketMap :
       IF k \in DOMAIN threadTicketMap'
         THEN \/ threadTicketMap'[k] = threadTicketMap[k]
              \/ \E h \in Leaving : h.item.type = "deferred_followup" /\ h.item.threadTs = k
         ELSE \/ \E h \in Leaving : h.item.type = "message_deleted"
              \/ /\ now - threadTicketMap[k].createdAt > maxAge
                 /\ \E h \in Leaving : h.item.type = "new"]_vars

\* C25: a MessageOutcome, once written for a timestamp, is not written again: it
\* stays as it is until a TTL sweep removes it, when it is older than 24 hours, or
\* the handling of a delete does.
MessageOutcomeWrittenOnce ==
  [][\A k \in DOMAIN messageTicketMap :
       IF k \in DOMAIN messageTicketMap'
         THEN messageTicketMap'[k] = messageTicketMap[k]
         ELSE \/ \E h \in Leaving : h.item.type = "message_deleted" /\ h.item.messageTs = k
              \/ /\ now - messageTicketMap[k].createdAt > maxAge
                 /\ \E h \in Leaving : h.item.type = "new"]_vars

\* C26: the correlation maps are written only as a handler's await settles and the
\* dedup set only by a listener, and no classification runs while a dispatched
\* item's handler is suspended: while a handler is in flight no listener pushes an
\* item or adds to the dedup set.
NoClassificationMidFlight ==
  [][/\ (threadTicketMap' # threadTicketMap \/ messageTicketMap' # messageTicketMap)
        => Leaving # {}
     /\ processedMessages' # processedMessages => lastOutcome' = "pushed"
     /\ inflight # {}
        => nextId' = nextId /\ processedMessages' = processedMessages]_vars

\* C27: in every reachable state a message that carries robot_face has had its
\* handling as a new message completed with success: its MessageOutcome is written
\* and its verdict is not error.
MarkerOnlyAfterSuccess ==
  \A ts \in DOMAIN reactions :
    reactions[ts] = "added"
    => /\ MapHas(messageTicketMap, ts)
       /\ messageTicketMap[ts].action # "error"

\* C28: the connection to the tracker is tried at most 5 times, with waits of 2 s,
\* 4 s, 8 s and 16 s between consecutive attempts; a success ends the retries and
\* main() goes on, a failure of the fifth attempt ends the process, and every turn
\* of the loop ends it or moves to the next attempt, so the loop ends connected or
\* in a fatal exit.
ConnectRetriesBounded ==
  /\ [](/\ connect.attempt \in 1..5
        /\ connect.delays = SubSeq(<<2000, 4000, 8000, 16000>>, 1, connect.attempt - 1))
  /\ [][phase = "connect"
        => \/ phase' = "recover"
           \/ phase' = "exited"
           \/ phase' = "connect" /\ connect'.attempt = connect.attempt + 1]_vars
  /\ [][\A outcome \in ConnectOutcomes :
          ConnectAttempt(outcome)
          => /\ outcome = "ok" => phase' = "recover"
             /\ (outcome # "ok" /\ connect.attempt = 5) => phase' = "exited"]_vars

\* C28 witness: four attempts failed on the network, the waits were 2, 4, 8 and 16
\* seconds, and the fifth failure has ended the process
ConnectRetriesBoundedWitness ==
  /\ phase = "exited"
  /\ connect.attempt = 5
  /\ connect.delays = <<2000, 4000, 8000, 16000>>

\* C29: shutdown does not wait for the queue: from the first termination signal on
\* no item that is still in the queue is dispatched, and a second signal during
\* shutdown changes nothing.
ShutdownDispatchesNothing ==
  /\ [][(phase \in {"stopping", "exited"}) => started' = started]_vars
  /\ [][(phase = "stopping" /\ Signal) => UNCHANGED vars]_vars

\* C30: isProcessableMessage(msg) is true exactly when msg is not written by a bot
\* (no bot_id, subtype not bot_message), is not a reply in a thread (thread_ts absent
\* or equal to ts), has a text, a file or an attachment, and has no subtype or the
\* subtype file_share; and applying it changes nothing: the scan collects the newest
\* message of the page exactly in that case, and leaves everything but its own
\* locals as it was.
ProcessableExactly ==
  [][(phase = "recover" /\ scan.scanning)
     => LET msg == scan'.pages[1][1] IN
        /\ (scan'.missedMessages = <<msg>>)
           <=> (/\ ~msg.bot_id /\ msg.subtype # "bot_message"
                /\ msg.thread_ts \in {NoTs, msg.ts}
                /\ (msg.text # <<>> \/ msg.files \/ msg.attachments)
                /\ msg.subtype \in {"", "file_share"})
        /\ scan'.missedMessages \in {<<>>, <<msg>>}
        /\ UNCHANGED <<processedMessages, messageQueue, isProcessing, threadTicketMap,
                       messageTicketMap, inflight, nextId, reactions>>]_vars

\* C30 witness: a message whose only content is an attachment, which heads its own
\* thread and has the subtype file_share, was found processable and recovered
ProcessableExactlyWitness ==
  /\ phase = "drain"
  /\ Len(scan.pages) = 1
  /\ scan.pages[1][1].text = <<>>
  /\ ~scan.pages[1][1].files
  /\ scan.pages[1][1].attachments
  /\ scan.pages[1][1].thread_ts = scan.pages[1][1].ts
  /\ scan.pages[1][1].subtype = "file_share"
  /\ Len(messageQueue) = 1
  /\ messageQueue[1].messageTs = scan.pages[1][1].ts

----------------------------------------------------------------------------
(* Claims about the listeners' early returns *)

\* What a rejected event leaves alone
NothingQueued ==
  UNCHANGED <<messageQueue, nextId, processedMessages, threadTicketMap, messageTicketMap>>

BotAuthored(ev) == ev.kind # "message_deleted" /\ ev.bot_id

WrongChannel(ev) == ev.channel # MonitoredChannel

OtherSubtype(ev) == ev.subtype # "" /\ ev.subtype # "file_share"

\* A message_deleted event carries no content of its own
NoContent(ev) ==
  IF ev.kind = "message" THEN ev.text = <<>> /\ ~ev.files /\ ~ev.attachments
  ELSE IF ev.kind = "message_changed" THEN ev.text = <<>>
  ELSE TRUE

\* The listener an event of each kind is for
Listens(ev) ==
  IF ev.kind = "message" THEN OnMessage(ev)
  ELSE IF ev.kind = "message_changed" THEN OnMessageChanged(ev)
  ELSE OnMessageDeleted(ev)

\* C31, as stated: a live event of any kind that is bot-authored, of another channel,
\* of a subtype other than file_share or without text, files and attachments pushes no
\* item and leaves the queue, the dedup set and both maps as they are.
IngestRejects ==
  [][\A ev \in IngestMessages \cup IngestEdits \cup IngestDeletes :
       ((BotAuthored(ev) \/ WrongChannel(ev) \/ OtherSubtype(ev) \/ NoContent(ev))
        /\ Listens(ev))
       => NothingQueued]_vars

\* C31, amended: the four rejections are those of the message listener; the edit
\* listener rejects a bot-authored event and one of another channel, the delete
\* listener one of another channel; a rejected event pushes no item and leaves the
\* queue, the dedup set and both maps as they are.
IngestRejectsByListener ==
  [][/\ \A msg \in IngestMessages :
          ((BotAuthored(msg) \/ WrongChannel(msg) \/ OtherSubtype(msg) \/ NoContent(msg))
           /\ OnMessage(msg))
          => NothingQueued
     /\ \A ev \in IngestEdits :
          ((BotAuthored(ev) \/ WrongChannel(ev)) /\ OnMessageChanged(ev)) => NothingQueued
     /\ \A ev \in IngestDeletes :
          (WrongChannel(ev) /\ OnMessageDeleted(ev)) => NothingQueued]_vars

\* C31 witness: an event was rejected after a message had been triaged; the queue is
\* empty and the maps hold that message alone
IngestRejectsByListenerWitness ==
  /\ lastOutcome = "filtered"
  /\ nextId = 2
  /\ messageQueue = <<>>
  /\ DOMAIN messageTicketMap = {1}
  /\ processedMessages = <<1>>

----------------------------------------------------------------------------
(* Claims about the sweep *)

\* The handlers that write the maps
Writers == {"new", "orphan_thread", "deferred_followup"}

\* C32: right after a write of the new, orphan_thread or deferred-upgrade path to
\* threadTicketMap or messageTicketMap the written map holds no entry older than 24
\* hours, and the step removes no entry that is at most 24 hours old.
SweepAfterEveryWrite ==
  [][(\E h \in Leaving : h.item.type \in Writers)
     => /\ threadTicketMap' # threadTicketMap
           => \A k \in DOMAIN threadTicketMap' :
                ~(now' - threadTicketMap'[k].createdAt > maxAge)
        /\ messageTicketMap' # messageTicketMap
           => \A k \in DOMAIN messageTicketMap' :
                ~(now' - messageTicketMap'[k].createdAt > maxAge)
        /\ \A k \in DOMAIN threadTicketMap \ DOMAIN threadTicketMap' :
             now - threadTicketMap[k].createdAt > maxAge
        /\ \A k \in DOMAIN messageTicketMap \ DOMAIN messageTicketMap' :
             now - messageTicketMap[k].createdAt > maxAge]_vars

\* The same for the writes of processNewMessage alone
SweepAfterNewWrite ==
  [][(\E h \in Leaving : h.item.type = "new")
     => /\ threadTicketMap' # threadTicketMap
           => \A k \in DOMAIN threadTicketMap' :
                ~(now' - threadTicketMap'[k].createdAt > maxAge)
        /\ messageTicketMap' # messageTicketMap
           => \A k \in DOMAIN messageTicketMap' :
                ~(now' - messageTicketMap'[k].createdAt > maxAge)
        /\ \A k \in DOMAIN threadTicketMap \ DOMAIN threadTicketMap' :
             now - threadTicketMap[k].createdAt > maxAge
        /\ \A k \in DOMAIN messageTicketMap \ DOMAIN messageTicketMap' :
             now - messageTicketMap[k].createdAt > maxAge]_vars

----------------------------------------------------------------------------
(* Claims about the item between its push and its dispatch *)

\* The "new" item of message ts waits in the queue or its handler is in flight
RootPending(ts) ==
  \/ \E i \in 1..Len(messageQueue) :
       messageQueue[i].type = "new" /\ messageQueue[i].messageTs = ts
  \/ \E h \in inflight : h.item.type = "new" /\ h.item.messageTs = ts

\* C33: the category and the ticket fields of an item are those the listener read
\* from threadTicketMap when the event arrived.  A reply that arrives while the "new"
\* item of its root is queued or in flight and the thread has no ThreadOutcome is
\* pushed as orphan_thread; an item in the queue is never rewritten; and the handler
\* that a dispatch starts is given the head of the queue as it was pushed, whatever
\* threadTicketMap holds by then.
ItemFixedAtArrival ==
  [][/\ \A msg \in Replies :
          (OnMessage(msg) /\ RootPending(msg.thread_ts)
           /\ ~MapHas(threadTicketMap, msg.thread_ts))
          => /\ PushedOne
             /\ Pushed.type = "orphan_thread"
             /\ Pushed.ticketId = "" /\ Pushed.ticketIdentifier = ""
     /\ \/ messageQueue' = messageQueue
        \/ messageQueue # <<>> /\ messageQueue' = Tail(messageQueue)
        \/ /\ Len(messageQueue') = Len(messageQueue) + 1
           /\ SubSeq(messageQueue', 1, Len(messageQueue)) = messageQueue
     /\ started' # started
        => /\ messageQueue # <<>>
           /\ messageQueue' = Tail(messageQueue)
           /\ started' = Append(started, Head(messageQueue).id)
           /\ \/ inflight' = inflight
              \/ \E h \in inflight' :
                   /\ h.item = Head(messageQueue)
                   /\ inflight' = inflight \cup {h}
                   /\ h \notin inflight]_vars

\* C33 witness: the reply of thread 1 arrived while the "new" item of message 1 was
\* in flight; that handler has written the ThreadOutcome of thread 1, and the reply's
\* handler runs as orphan_thread
ItemFixedAtArrivalWitness ==
  /\ started = <<1, 2>>
  /\ finished = <<1>>
  /\ MapHas(threadTicketMap, 1)
  /\ MapHas(messageTicketMap, 1)
  /\ \E h \in inflight :
       h.item.id = 2 /\ h.item.type = "orphan_thread" /\ h.item.threadTs = 1

----------------------------------------------------------------------------
(* Claims about the ticket reference of a ThreadOutcome *)

\* C34: in every state a ThreadOutcome that is not deferred has a ticketId and a
\* ticketIdentifier, whichever of the three handlers wrote it; and when the "new"
\* handler gets a created / duplicate verdict with at least one of the two, the
\* entry it writes takes each from the verdict, or from the other one when the
\* verdict has none (the MessageOutcome of the same step holds the verdict's own).
TrackedHasTicket ==
  /\ [](\A k \in DOMAIN threadTicketMap :
          ~threadTicketMap[k].isDeferred
          => threadTicketMap[k].ticketId # "" /\ threadTicketMap[k].ticketIdentifier # "")
  /\ [][\A h \in Leaving :
          (/\ h.item.type = "new"
           /\ messageTicketMap' # messageTicketMap
           /\ MapHas(messageTicketMap', h.item.messageTs)
           /\ messageTicketMap'[h.item.messageTs].wasTriaged
           /\ \/ messageTicketMap'[h.item.messageTs].ticketId # ""
              \/ messageTicketMap'[h.item.messageTs].ticketIdentifier # "")
          => LET verdict == messageTicketMap'[h.item.messageTs] IN
             /\ MapHas(threadTicketMap', h.item.messageTs)
             /\ threadTicketMap'[h.item.messageTs].ticketId =
                  OrElse(verdict.ticketId, verdict.ticketIdentifier)
             /\ threadTicketMap'[h.item.messageTs].ticketIdentifier =
                  OrElse(verdict.ticketIdentifier, verdict.ticketId)]_vars

\* C34 witness: a verdict with the identifier alone was stored; the identifier
\* stands for the ticketId too
TrackedHasTicketWitness ==
  \E k \in DOMAIN threadTicketMap :
    /\ ~threadTicketMap[k].isDeferred
    /\ threadTicketMap[k].ticketId = "ENG-42"
    /\ threadTicketMap[k].ticketIdentifier = "ENG-42"
    /\ MapHas(messageTicketMap, k)
    /\ messageTicketMap[k].ticketId = ""

----------------------------------------------------------------------------
(* Claims about the latch at the event loop *)

\* C35: whenever the program is back at the event loop after the startup drain (no
\* activation of processQueue is between two awaits), a non-empty queue implies the
\* latch is set, and a set latch implies that one activation is suspended in a
\* handler's await; and every step that ends an activation resets the latch, also
\* after a handler threw.
LatchTracksDrain ==
  /\ []((looping = 0 /\ phase \in {"live", "stopping"})
        => /\ messageQueue # <<>> => isProcessing
           /\ isProcessing => Cardinality(inflight) = 1)
  /\ [][(looping' = looping - 1 /\ inflight' = inflight) => ~isProcessing']_vars

\* C35 witness: the handler of item 1 threw, the same activation handled item 2 and
\* ended; the latch is down, the queue is empty and the program is at the event loop
LatchTracksDrainWitness ==
  /\ phase = "live"
  /\ looping = 0
  /\ 1 \in threw
  /\ Len(finished) = 2
  /\ nDrains = 1
  /\ messageQueue = <<>>
  /\ ~isProcessing

----------------------------------------------------------------------------
(* Claims about the number of items an event yields *)

\* The queue has grown by exactly one item, behind the ones it held
OneMore ==
  /\ PushedOne
  /\ SubSeq(messageQueue', 1, Len(messageQueue)) = messageQueue

\* C36: an accepted live event yields at most one item, of one category.  A message
\* event yields exactly one item of type direct_command, deferred_followup,
\* thread_reply, orphan_thread or new, or none when it is a top-level message
\* without the mention whose timestamp the dedup set holds; the dedup set grows
\* exactly when the item is "new", so a message with the mention is pushed as
\* direct_command alone and is not remembered.  An accepted message_changed event
\* yields one message_edited item and an accepted message_deleted event one
\* message_deleted item, and neither touches the dedup set.
OneItemPerEvent ==
  [][/\ \A msg \in MessageEvents :
          (OnMessage(msg) /\ MessageAccepted(msg))
          => IF ~IsBotMentioned(msg) /\ ~IsReply(msg) /\ msg.ts \in Range(processedMessages)
               THEN UNCHANGED <<messageQueue, nextId, processedMessages>>
               ELSE /\ OneMore
                    /\ Pushed.type \in {"direct_command", "deferred_followup",
                                        "thread_reply", "orphan_thread", "new"}
                    /\ Pushed.type = "new" <=> processedMessages' # processedMessages
                    /\ IsBotMentioned(msg)
                       => /\ Pushed.type = "direct_command"
                          /\ processedMessages' = processedMessages
     /\ \A ev \in EditEvents :
          (OnMessageChanged(ev) /\ EditAccepted(ev))
          => /\ OneMore
             /\ Pushed.type = "message_edited"
             /\ processedMessages' = processedMessages
     /\ \A ev \in DeleteEvents :
          (OnMessageDeleted(ev) /\ DeleteAccepted(ev))
          => /\ OneMore
             /\ Pushed.type = "message_deleted"
             /\ processedMessages' = processedMessages]_vars

\* C36 witness: a top-level message with the mention was delivered twice; each
\* delivery gave one direct_command, and the dedup set is empty
OneItemPerEventWitness ==
  /\ nextId = 3
  /\ processedMessages = <<>>
  /\ Len(messageQueue) = 1
  /\ messageQueue[1].type = "direct_command"
  /\ messageQueue[1].threadTs = messageQueue[1].messageTs
  /\ \E h \in inflight :
       /\ h.item.type = "direct_command"
       /\ h.item.messageTs = messageQueue[1].messageTs

----------------------------------------------------------------------------
(* Claims about an edit or delete that arrives during the triage of its message *)

\* The next item is the edit or the delete of a message whose "new" item was pushed
\* before it: the timestamp is in the dedup set and no "new" item of it was pushed
\* later
FollowsItsMessage ==
  /\ messageQueue # <<>>
  /\ NextItem.type \in {"message_edited", "message_deleted"}
  /\ NextItem.messageTs \in Range(processedMessages)
  /\ \A i \in 1..Len(messageQueue) :
       (messageQueue[i].type = "new" /\ messageQueue[i].messageTs = NextItem.messageTs)
       => messageQueue[i].id < NextItem.id

\* C37: when the handler of an edit or delete item is started and the "new" item of
\* its message was pushed before it, that "new" item is neither in the queue nor in
\* flight any more, its MessageOutcome is in messageTicketMap, and the handler that
\* goes on to call the agent does so with that MessageOutcome.
EditWaitsForTriage ==
  [][(started' # started /\ FollowsItsMessage)
     => /\ ~RootPending(NextItem.messageTs)
        /\ MapHas(messageTicketMap, NextItem.messageTs)
        /\ \A h \in inflight' \ inflight :
             /\ h.item = NextItem
             /\ h.info = messageTicketMap[NextItem.messageTs]]_vars

\* C37 witness: the edit of message 1 arrived while the "new" handler of message 1
\* was in flight; the same activation of processQueue started the edit's handler
\* after it, with the MessageOutcome that handler wrote
EditWaitsForTriageWitness ==
  /\ started = <<1, 2>>
  /\ finished = <<1>>
  /\ nDrains = 1
  /\ MapHas(messageTicketMap, 1)
  /\ \E h \in inflight :
       /\ h.item.type = "message_edited"
       /\ h.item.messageTs = 1
       /\ h.info = messageTicketMap[1]
       /\ h.info.wasTriaged

----------------------------------------------------------------------------
(* Claims about the age of an upgraded ThreadOutcome *)

\* A ThreadOutcome that was written deferred and upgraded since: it is not deferred
\* and has the context that only a deferral stores
Upgraded(entry) == ~entry.isDeferred /\ entry.originalContext # <<>>

\* C38: the return of the deferred follow-up handler removes no ThreadOutcome and
\* leaves createdAt, isDuplicate, originalContext and originalReporterId of every
\* one as they were; so an upgraded entry has the createdAt of its deferral (that of
\* the MessageOutcome written with it), and the next sweep of threadTicketMap
\* removes it once 24 hours have passed since the deferral.
UpgradeKeepsAge ==
  /\ [][(\E h \in Leaving : h.item.type = "deferred_followup")
        => \A k \in DOMAIN threadTicketMap :
             /\ k \in DOMAIN threadTicketMap'
             /\ threadTicketMap'[k].createdAt = threadTicketMap[k].createdAt
             /\ threadTicketMap'[k].isDuplicate = threadTicketMap[k].isDuplicate
             /\ threadTicketMap'[k].originalContext = threadTicketMap[k].originalContext
             /\ threadTicketMap'[k].originalReporterId
                  = threadTicketMap[k].originalReporterId]_vars
  /\ [](\A k \in DOMAIN threadTicketMap :
          (/\ Upgraded(threadTicketMap[k])
           /\ MapHas(messageTicketMap, k)
           /\ messageTicketMap[k].action = "deferred")
          => threadTicketMap[k].createdAt = messageTicketMap[k].createdAt)
  /\ [][\A h \in Leaving :
          (h.item.type = "new" /\ threadTicketMap' # threadTicketMap)
          => \A k \in DOMAIN threadTicketMap :
               (Upgraded(threadTicketMap[k]) /\ Expired(threadTicketMap[k]))
               => k \notin DOMAIN threadTicketMap']_vars

\* C38 witness: thread 1 was deferred at time 0 and upgraded 23 hours 59 minutes
\* later; its ThreadOutcome names the ticket and still has createdAt 0
UpgradeKeepsAgeWitness ==
  /\ MapHas(threadTicketMap, 1)
  /\ Upgraded(threadTicketMap[1])
  /\ threadTicketMap[1].ticketId = "uuid-1"
  /\ threadTicketMap[1].createdAt = 0
  /\ now = maxAge - Minute
  /\ lastCall.fn = "handleDeferredFollowup"

----------------------------------------------------------------------------
(* Claims about the delete of a message without a thread key *)

\* C39: when the delete handler of an item without a thread key returns, the
\* MessageOutcome of its message is removed and nothing else: threadTicketMap is
\* unchanged.  A reply to a thread whose ThreadOutcome is there and not deferred is
\* pushed as thread_reply with that entry's ticket, also when the MessageOutcome of
\* the parent is gone.  An edit or delete item whose message has no MessageOutcome
\* makes no call to the agent and changes neither map.
KeylessDeleteKeepsThread ==
  /\ [][\A h \in Leaving :
          (h.item.type = "message_deleted" /\ h.item.threadTs = NoTs)
          => /\ messageTicketMap' = MapDelete(messageTicketMap, h.item.messageTs)
             /\ threadTicketMap' = threadTicketMap]_vars
  /\ [][\A msg \in KeylessMessages :
          (/\ OnMessage(msg)
           /\ IsReply(msg)
           /\ MapHas(threadTicketMap, msg.thread_ts)
           /\ ~MapHas(messageTicketMap, msg.thread_ts))
          => /\ PushedOne
             /\ Pushed.type = "thread_reply"
             /\ Pushed.ticketId = threadTicketMap[msg.thread_ts].ticketId
             /\ Pushed.ticketIdentifier = threadTicketMap[msg.thread_ts].ticketIdentifier]_vars
  /\ [][(/\ started' # started
         /\ messageQueue # <<>>
         /\ NextItem.type \in {"message_edited", "message_deleted"}
         /\ ~MapHas(messageTicketMap, NextItem.messageTs))
        => /\ lastCall' = [NoCall EXCEPT !.id = NextItem.id]
           /\ inflight' = inflight
           /\ UNCHANGED <<threadTicketMap, messageTicketMap>>]_vars

\* C39 witness: message 1 was triaged and deleted without a thread key (the call for
\* the delete was made and has returned); its ThreadOutcome is still there, its
\* MessageOutcome is not, and a reply that came afterwards runs as thread_reply
KeylessDeleteKeepsThreadWitness ==
  /\ lastCall.fn = "handleMessageDelete"
  /\ lastCall.id = 2
  /\ finished = <<1, 2>>
  /\ MapHas(threadTicketMap, 1)
  /\ ~MapHas(messageTicketMap, 1)
  /\ \E h \in inflight :
       /\ h.item.id = 3
       /\ h.item.type = "thread_reply"
       /\ h.item.threadTs = 1
       /\ h.item.ticketIdentifier = "ENG-42"

----------------------------------------------------------------------------
(* Claims about the failures the connection loop retries *)

\* C40: a failure of linearClient.viewer that is not recognised as a network error
\* ends the process on the attempt where it occurs, whatever the attempt number:
\* the attempt counter stays, no wait is scheduled; and an attempt is followed by a
\* wait and another attempt only after a network error.
OnlyNetworkRetried ==
  [][\A outcome \in ConnectOutcomes :
       ConnectAttempt(outcome)
       => /\ outcome = "other"
             => /\ phase' = "exited"
                /\ connect'.attempt = connect.attempt
                /\ connect'.delays = connect.delays
          /\ (connect'.attempt # connect.attempt \/ connect'.delays # connect.delays)
             => /\ outcome = "network"
                /\ phase' = "connect"]_vars

\* C40 witness: the process has ended on the first attempt, with four retries left
\* and no wait made
OnlyNetworkRetriedWitness ==
  /\ phase = "exited"
  /\ connect.attempt = 1
  /\ connect.delays = <<>>
  /\ connect.attempt < maxRetries

====
